---- MODULE Spec2Model ----
(***************************************************************************)
(* State-machine model of the XP / referral bot in src/main.py.            *)
(*                                                                         *)
(* The SQLite tables are the state: user_stats, invite_links,              *)
(* invited_users, xp_keywords, xp_log and bot_settings, together with the  *)
(* in-memory administrator set, the wall clock and the coroutines that are *)
(* suspended at an await.  Every handler is one action up to its first     *)
(* await that is followed by a write; the part after such an await is the  *)
(* action that resumes the coroutine.                                      *)
(*                                                                         *)
(* Encodings.  A character is a one-element string; the Hangul jamo of the *)
(* source are written "<kh>" (U+314B) and "<k>" (U+3131).  A text is a     *)
(* sequence of characters.  A UTC instant is a number of seconds; its      *)
(* ISO string is the pair <<day, second of day>>, compared as the strings  *)
(* are (lexicographically).  A date string YYYY-MM-DD is its day number.   *)
(***************************************************************************)
EXTENDS Integers, Sequences, FiniteSets, TLC

VARIABLES
    MAIN_CHAT_ID,       \* environment: the main group, 0 when not configured
    concurrent_updates, \* whether the dispatcher runs handlers concurrently
    ADMIN_USER_IDS,     \* in-memory administrator set
    user_stats,         \* table user_stats: <<chat_id, user_id>> -> row
    invite_links,       \* table invite_links: token -> row (created_at is never read)
    invited_users,      \* table invited_users: <<chat_id, user_id>> -> row
    xp_keywords,        \* table xp_keywords: word -> [mode, delta]
    xp_log,             \* table xp_log, in insertion (id) order
    bot_settings,       \* the single row of bot_settings
    now,                \* datetime.utcnow(), in seconds
    links_minted,       \* invite links the chat platform has created so far
    backup_made,        \* a backup zip has been written by backup_db_to_zip
    pending,            \* coroutines suspended at an await, with their locals
    reply,              \* what the last handler step did and answered
    msg_hist,           \* history: per member, the message XP admitted so far
    join_count          \* history: per <<chat, new user>>, attributed joins

vars == <<MAIN_CHAT_ID, concurrent_updates, ADMIN_USER_IDS, user_stats,
          invite_links, invited_users, xp_keywords, xp_log, bot_settings,
          now, links_minted, backup_made, pending, reply, msg_hist,
          join_count>>

----------------------------------------------------------------------------
(* Bounds of the model *)

MaxElapsed == 7    \* seconds the clock may advance past StartTime
MaxLog == 2         \* rows of xp_log
MaxLinks == 2       \* invite links the platform mints
MaxJoins == 2       \* joins counted on one invite link
MaxPending == 2     \* coroutines suspended at the same time
MaxXp == 410        \* largest single credit when levels are tabulated

----------------------------------------------------------------------------
(* Program constants and environment *)

NULL == -1
OWNER_ID == 1
DefaultCooldown == 7
DefaultDailyCap == 500
DefaultInviteXp == 100
DailyBonus == 50
KstOffset == 32400
DaySeconds == 86400
\* The run starts seven seconds before midnight in the reporting timezone.
StartTime == 53993

Users == {1, 2}
MainGroup == 1
OtherGroup == 2
GroupChats == {MainGroup, OtherGroup}
PrivateChat(user) == 10 + user
PrivateChats == {PrivateChat(u) : u \in Users}
ChatsOf(user) == GroupChats \cup {PrivateChat(user)}
AllChats == GroupChats \cup PrivateChats
GroupKeys == GroupChats \X Users

chat_type(chat) == IF chat \in GroupChats THEN "group" ELSE "private"

is_owner(user_id) == OWNER_ID # 0 /\ user_id = OWNER_ID

\* variant of is_admin that takes every member for an administrator
is_admin_anyone(user_id) == user_id \in Users

is_admin(user_id) == is_owner(user_id) \/ user_id \in ADMIN_USER_IDS

\* variant of is_main_chat that takes every chat for the main one
is_main_chat_any(chat_id) == TRUE

is_main_chat(chat_id) == IF MAIN_CHAT_ID = 0 THEN TRUE ELSE chat_id = MAIN_CHAT_ID

is_private_chat(chat) == chat_type(chat) = "private"

\* `MAIN_CHAT_ID or chat.id`
main_or(chat) == IF MAIN_CHAT_ID # 0 THEN MAIN_CHAT_ID ELSE chat

----------------------------------------------------------------------------
(* Time *)

isoformat(t) == <<t \div DaySeconds, t % DaySeconds>>

fromisoformat(s) == s[1] * DaySeconds + s[2]

\* (now_utc + timedelta(hours=9)).date().isoformat()
kst_date(t) == (t + KstOffset) \div DaySeconds

----------------------------------------------------------------------------
(* Levels *)

\* variant of calc_level that needs more than the threshold to level up
calc_level_late(xp) ==
    IF xp > 0
    THEN (CHOOSE k \in 0..xp : 100 * k * k < xp /\ xp <= 100 * (k + 1) * (k + 1)) + 1
    ELSE 1

calc_level(xp) ==
    IF xp > 0
    THEN (CHOOSE k \in 0..xp : 100 * k * k <= xp /\ xp < 100 * (k + 1) * (k + 1)) + 1
    ELSE 1

\* variant of xp_for_next_level that answers the threshold of the level itself
xp_for_this_level(level) == (level - 1) * (level - 1) * 100

xp_for_next_level(level) ==
    LET next_level == level + 1
    IN (next_level - 1) * (next_level - 1) * 100

----------------------------------------------------------------------------
(* Texts *)

KH == "<kh>"
KI == "<k>"
SpaceChars == {" "}
AlnumChars == {"a", "b", "s", "A", "B", "S", "7", KH, KI}

isspace(ch) == ch \in SpaceChars

isalnum(ch) == ch \in AlnumChars

lower_char(ch) ==
    CASE ch = "A" -> "a"
      [] ch = "B" -> "b"
      [] ch = "S" -> "s"
      [] OTHER -> ch

lower(text) == [i \in 1..Len(text) |-> lower_char(text[i])]

strip_spaces(text) == SelectSeq(text, LAMBDA ch : ~isspace(ch))

Rep(ch, n) == [i \in 1..n |-> ch]

contains(sub, text) ==
    \E i \in 1..(Len(text) - Len(sub) + 1) : SubSeq(text, i, i + Len(sub) - 1) = sub

_is_emoji_only(text) ==
    LET stripped == strip_spaces(text)
    IN IF stripped = <<>> THEN FALSE
       ELSE \A i \in 1..Len(stripped) : ~isalnum(stripped[i])

only_kek_or_gg(text) ==
    LET no_space == strip_spaces(text)
    IN no_space # <<>> /\
       ((\A i \in 1..Len(no_space) : no_space[i] = KH) \/
        (\A i \in 1..Len(no_space) : no_space[i] = KI))

\* variant of base_xp_of that rounds the length bonus up
base_xp_of_rounding_up(text) ==
    LET no_space == strip_spaces(text)
    IN IF Len(no_space) < 5 THEN 0
       ELSE IF _is_emoji_only(text) THEN 0
       ELSE IF only_kek_or_gg(text) THEN 0
       ELSE 3 + (Len(no_space) + 19) \div 20

\* handle_message, base_xp
base_xp_of(text) ==
    LET no_space == strip_spaces(text)
    IN IF Len(no_space) < 5 THEN 0
       ELSE IF _is_emoji_only(text) THEN 0
       ELSE IF only_kek_or_gg(text) THEN 0
       ELSE 3 + Len(no_space) \div 20

DefaultKeywords == {<<KH, KH>>, <<KI, KI>>}

\* the keyword rows that the loop of handle_message lets match the text
matching(keywords, text, mode) ==
    {w \in DOMAIN keywords :
        /\ w # <<>>
        /\ w \notin DefaultKeywords
        /\ contains(lower(w), lower(text))
        /\ keywords[w].mode = mode}

RECURSIVE sum_delta(_, _)
sum_delta(keywords, words) ==
    IF words = {} THEN 0
    ELSE LET w == CHOOSE x \in words : TRUE
         IN keywords[w].delta + sum_delta(keywords, words \ {w})

\* variant of blocked in which no rule blocks
blocked_never(keywords, text) == FALSE

\* handle_message, "키워드 기반 보너스/차단": the loop is skipped for filler
blocked(keywords, text) ==
    ~only_kek_or_gg(text) /\ matching(keywords, text, "block") # {}

\* variant of text_xp that runs the keyword loop for filler as well
text_xp_with_keywords(keywords, text) ==
    LET bonus_total == sum_delta(keywords, matching(keywords, text, "bonus"))
        xp_delta == IF matching(keywords, text, "block") # {} THEN 0
                    ELSE base_xp_of(text) + bonus_total
    IN IF xp_delta < 0 THEN 0 ELSE xp_delta

\* variant of text_xp that lets the bonus total take the delta below zero
text_xp_signed(keywords, text) ==
    LET bonus_total == IF only_kek_or_gg(text) THEN 0
                       ELSE sum_delta(keywords, matching(keywords, text, "bonus"))
    IN IF blocked(keywords, text) THEN 0 ELSE base_xp_of(text) + bonus_total

\* handle_message up to the anti-spam part: the XP of the text itself
text_xp(keywords, text) ==
    LET bonus_total == IF only_kek_or_gg(text) THEN 0
                       ELSE sum_delta(keywords, matching(keywords, text, "bonus"))
        xp_delta == IF blocked(keywords, text) THEN 0
                    ELSE base_xp_of(text) + bonus_total
    IN IF xp_delta < 0 THEN 0 ELSE xp_delta

----------------------------------------------------------------------------
(* Rows and tables *)

NoIso == <<>>

Put(table, key, row) ==
    [x \in DOMAIN table \cup {key} |-> IF x = key THEN row ELSE table[x]]

max0(x) == IF x > 0 THEN x ELSE 0

\* a user_stats row with the column defaults of CREATE TABLE
StatsRow(xp, level, messages_count, last_daily, invites_count) ==
    [xp |-> xp, level |-> level, messages_count |-> messages_count,
     last_daily |-> last_daily, invites_count |-> invites_count,
     last_xp_at |-> NoIso, daily_xp |-> 0, daily_xp_date |-> NULL]

LogRow(chat_id, user_id, xp_delta, msg_len, at) ==
    [chat_id |-> chat_id, user_id |-> user_id, xp_delta |-> xp_delta,
     msg_len |-> msg_len, created_at |-> isoformat(at)]

\* variant of log_xp that records messages only
log_xp_messages(log, chat_id, user_id, xp_delta, msg_len, at) ==
    IF msg_len > 0 THEN Append(log, LogRow(chat_id, user_id, xp_delta, msg_len, at))
    ELSE log

\* variant of log_xp that keeps the newest row only
log_xp_newest(log, chat_id, user_id, xp_delta, msg_len, at) ==
    <<LogRow(chat_id, user_id, xp_delta, msg_len, at)>>

\* variant of log_xp that drops the rows of events that earned nothing
log_xp_earned(log, chat_id, user_id, xp_delta, msg_len, at) ==
    IF xp_delta > 0 THEN Append(log, LogRow(chat_id, user_id, xp_delta, msg_len, at))
    ELSE log

log_xp(log, chat_id, user_id, xp_delta, msg_len, at) ==
    Append(log, LogRow(chat_id, user_id, xp_delta, msg_len, at))

\* variant of add_xp that does not count the call in messages_count
add_xp_keeping_count(stats, chat_id, user_id, base_xp) ==
    LET k == <<chat_id, user_id>>
    IN IF k \notin DOMAIN stats
       THEN Put(stats, k, StatsRow(max0(base_xp), calc_level(max0(base_xp)), 0, NULL, 0))
       ELSE LET xp == stats[k].xp + max0(base_xp)
            IN Put(stats, k, [stats[k] EXCEPT !.xp = xp, !.level = calc_level(xp)])

\* variant of add_xp that does not recompute the level column
add_xp_keeping_level(stats, chat_id, user_id, base_xp) ==
    LET k == <<chat_id, user_id>>
    IN IF k \notin DOMAIN stats
       THEN Put(stats, k, StatsRow(max0(base_xp), 1, 1, NULL, 0))
       ELSE Put(stats, k, [stats[k] EXCEPT !.xp = @ + max0(base_xp),
                                           !.messages_count = @ + 1])

\* variant of add_xp that counts the credit in the day's total
add_xp_counting_daily(stats, chat_id, user_id, base_xp) ==
    LET k == <<chat_id, user_id>>
    IN IF k \notin DOMAIN stats
       THEN Put(stats, k, [StatsRow(max0(base_xp), calc_level(max0(base_xp)), 1, NULL, 0)
                              EXCEPT !.daily_xp = max0(base_xp)])
       ELSE LET xp == stats[k].xp + max0(base_xp)
            IN Put(stats, k, [stats[k] EXCEPT !.xp = xp,
                                              !.level = calc_level(xp),
                                              !.messages_count = @ + 1,
                                              !.daily_xp = @ + max0(base_xp)])

add_xp(stats, chat_id, user_id, base_xp) ==
    LET k == <<chat_id, user_id>>
    IN IF k \notin DOMAIN stats
       THEN Put(stats, k, StatsRow(max0(base_xp), calc_level(max0(base_xp)), 1, NULL, 0))
       ELSE LET xp == stats[k].xp + max0(base_xp)
            IN Put(stats, k, [stats[k] EXCEPT !.xp = xp,
                                              !.level = calc_level(xp),
                                              !.messages_count = @ + 1])

\* variant of after_cooldown that admits the XP at any instant
after_no_cooldown(xp_delta, cooldown_sec, last_xp_at, now_utc) == xp_delta

\* handle_message, "쿨다운 적용": last_xp_at is NULL or a UTC instant
after_cooldown(xp_delta, cooldown_sec, last_xp_at, now_utc) ==
    IF xp_delta > 0 /\ cooldown_sec > 0 /\ last_xp_at # NULL
       /\ now_utc - last_xp_at < cooldown_sec
    THEN 0
    ELSE xp_delta

\* variant of after_daily_cap that admits the XP whatever was accrued
after_no_daily_cap(xp_delta, daily_cap, daily_xp_current) == xp_delta

\* variant of after_daily_cap that drops a delta the cap cannot take whole
after_daily_cap_whole(xp_delta, daily_cap, daily_xp_current) ==
    IF xp_delta > 0 /\ daily_cap > 0 /\ daily_xp_current + xp_delta > daily_cap
    THEN 0
    ELSE xp_delta

\* handle_message, "일일 상한 적용"
after_daily_cap(xp_delta, daily_cap, daily_xp_current) ==
    IF xp_delta > 0 /\ daily_cap > 0
    THEN IF daily_xp_current >= daily_cap THEN 0
         ELSE IF xp_delta > daily_cap - daily_xp_current
              THEN daily_cap - daily_xp_current
              ELSE xp_delta
    ELSE xp_delta

\* variant of mark_admitted that stores the admitted amount alone
mark_admitted_alone(row, xp_delta, daily_xp_current, now_utc) ==
    IF xp_delta > 0
    THEN [row EXCEPT !.last_xp_at = isoformat(now_utc),
                     !.daily_xp = xp_delta,
                     !.daily_xp_date = kst_date(now_utc)]
    ELSE row

\* variant of mark_admitted that runs the UPDATE for every message
mark_admitted_always(row, xp_delta, daily_xp_current, now_utc) ==
    [row EXCEPT !.last_xp_at = isoformat(now_utc),
                !.daily_xp = daily_xp_current + xp_delta,
                !.daily_xp_date = kst_date(now_utc)]

\* handle_message, the UPDATE of the anti-spam columns after a credit
mark_admitted(row, xp_delta, daily_xp_current, now_utc) ==
    IF xp_delta > 0
    THEN [row EXCEPT !.last_xp_at = isoformat(now_utc),
                     !.daily_xp = daily_xp_current + xp_delta,
                     !.daily_xp_date = kst_date(now_utc)]
    ELSE row

\* variant of daily_row that stores the bonus as the member's xp
daily_row_flat(stats, key, today) ==
    IF key \notin DOMAIN stats
    THEN StatsRow(DailyBonus, calc_level(DailyBonus), 0, today, 0)
    ELSE [stats[key] EXCEPT !.xp = DailyBonus, !.level = calc_level(DailyBonus),
                            !.last_daily = today]

\* variant of daily_row that does not record the day of the claim
daily_row_undated(stats, key, today) ==
    IF key \notin DOMAIN stats
    THEN StatsRow(DailyBonus, calc_level(DailyBonus), 0, NULL, 0)
    ELSE LET xp == stats[key].xp + DailyBonus
         IN [stats[key] EXCEPT !.xp = xp, !.level = calc_level(xp)]

\* cmd_daily: the row after a granted claim (row is NULL when there is none)
daily_row(stats, key, today) ==
    IF key \notin DOMAIN stats
    THEN StatsRow(DailyBonus, calc_level(DailyBonus), 0, today, 0)
    ELSE LET xp == stats[key].xp + DailyBonus
         IN [stats[key] EXCEPT !.xp = xp, !.level = calc_level(xp),
                               !.last_daily = today]

\* variant of reset_rows without the WHERE clause
reset_rows_everywhere(stats, chat_id) ==
    [k \in DOMAIN stats |->
        [xp |-> 0, level |-> 1, messages_count |-> 0, last_daily |-> NULL,
         invites_count |-> 0, last_xp_at |-> NoIso, daily_xp |-> 0,
         daily_xp_date |-> NULL]]

\* cmd_resetxp: the UPDATE ... WHERE chat_id = MAIN_CHAT_ID
reset_rows(stats, chat_id) ==
    [k \in DOMAIN stats |->
        IF k[1] = chat_id
        THEN [xp |-> 0, level |-> 1, messages_count |-> 0, last_daily |-> NULL,
              invites_count |-> 0, last_xp_at |-> NoIso, daily_xp |-> 0,
              daily_xp_date |-> NULL]
        ELSE stats[k]]

\* variant of invited_row that counts the first join of an inviter only
invited_row_once(stats, key) ==
    IF key \notin DOMAIN stats
    THEN StatsRow(0, 1, 0, NULL, 1)
    ELSE stats[key]

\* handle_chat_member: the inviter's row after invites_count is incremented
invited_row(stats, key) ==
    IF key \notin DOMAIN stats
    THEN StatsRow(0, 1, 0, NULL, 1)
    ELSE [stats[key] EXCEPT !.invites_count = @ + 1]

----------------------------------------------------------------------------
(* What a handler step reports *)

NoReply ==
    [op |-> "none", chat |-> 0, user |-> 0, text |-> <<>>, xp_delta |-> 0,
     old_xp |-> 0, old_count |-> 0, ok |-> FALSE, token |-> NULL,
     level_up |-> FALSE, value |-> 0, old_value |-> 0,
     start_date |-> 0, end_date |-> 0,
     summary |-> [ok |-> FALSE, msg_count |-> 0, user_count |-> 0,
                  new_users |-> 0, rows |-> <<>>]]

Answer(op, chat, user, ok) ==
    [NoReply EXCEPT !.op = op, !.chat = chat, !.user = user, !.ok = ok]

\* the answer of a handler that returns early without touching the database
Rejected(op) == [NoReply EXCEPT !.op = op]

\* xp and messages_count of a member, 0 while it has no row
xp_of(stats, key) == IF key \in DOMAIN stats THEN stats[key].xp ELSE 0

count_of(stats, key) == IF key \in DOMAIN stats THEN stats[key].messages_count ELSE 0

\* History of the message XP admitted to a member: the instants of the last
\* two admissions and the sum admitted on the day of the last one.
NoAdmits == [last_admit_at |-> NULL, prev_admit_at |-> NULL, day |-> NULL, day_sum |-> 0]

note_admit(admits, xp_delta, now_utc) ==
    IF xp_delta > 0
    THEN [last_admit_at |-> now_utc,
          prev_admit_at |-> admits.last_admit_at,
          day |-> kst_date(now_utc),
          day_sum |-> (IF admits.day = kst_date(now_utc) THEN admits.day_sum ELSE 0)
                      + xp_delta]
    ELSE admits

\* `ever` is kept for good, `run` starts afresh when /resetxp zeroes the row
NoHist == [ever |-> NoAdmits, run |-> NoAdmits]

note_admitted(hist, xp_delta, now_utc) ==
    [ever |-> note_admit(hist.ever, xp_delta, now_utc),
     run |-> note_admit(hist.run, xp_delta, now_utc)]

note_reset(hist, chat_id) ==
    [k \in DOMAIN hist |-> IF k[1] = chat_id THEN [hist[k] EXCEPT !.run = NoAdmits]
                           ELSE hist[k]]

PendingJoins == {i \in DOMAIN pending : pending[i].kind = "join"}

PendingLinks == {i \in DOMAIN pending : pending[i].kind = "mylink"}

\* variant of CanDispatch for a dispatcher that always starts the next handler
\* while others are suspended
CanDispatch_concurrently == Len(pending) < MaxPending

\* the dispatcher runs one handler at a time unless concurrent_updates is set
CanDispatch ==
    pending = <<>> \/ (concurrent_updates /\ Len(pending) < MaxPending)

\* room in xp_log for this handler and for the suspended ones that will log
LogRoom == Len(xp_log) + Cardinality(PendingJoins) < MaxLog

Remove(seq, i) == SubSeq(seq, 1, i - 1) \o SubSeq(seq, i + 1, Len(seq))

----------------------------------------------------------------------------
(* Handlers *)

\* variant of level_up that announces every admitted message
level_up_on_gain(xp_delta, level, old_xp) == xp_delta > 0

\* handle_message, "레벨업 알림": whether the level-up reply is sent
level_up(xp_delta, level, old_xp) == xp_delta > 0 /\ level > calc_level(old_xp)

\* handle_message: a text message of `user` in `chat`
handle_message(chat, user, text) ==
    /\ CanDispatch
    /\ chat_type(chat) = "group"
    /\ LogRoom
    /\ LET k == <<chat, user>>
           has == k \in DOMAIN user_stats
           cooldown_sec == bot_settings.cooldown_seconds
           daily_cap == bot_settings.daily_xp_cap
           last_xp_at == IF has /\ user_stats[k].last_xp_at # NoIso
                         THEN fromisoformat(user_stats[k].last_xp_at)
                         ELSE NULL
           daily_date == IF has THEN user_stats[k].daily_xp_date ELSE NULL
           daily_xp_current == IF has /\ daily_date = kst_date(now)
                               THEN user_stats[k].daily_xp
                               ELSE 0
           xp_delta == after_daily_cap(
                           after_cooldown(text_xp(xp_keywords, text),
                                          cooldown_sec, last_xp_at, now),
                           daily_cap, daily_xp_current)
           credited == add_xp(user_stats, chat, user, xp_delta)
           old_xp == credited[k].xp - xp_delta
       IN /\ user_stats' = Put(credited, k,
                               mark_admitted(credited[k], xp_delta,
                                             daily_xp_current, now))
          /\ xp_log' = log_xp(xp_log, chat, user, xp_delta,
                              Len(strip_spaces(text)), now)
          /\ reply' = [Answer("message", chat, user, TRUE) EXCEPT
                          !.text = text,
                          !.xp_delta = xp_delta,
                          !.old_xp = old_xp,
                          !.old_count = count_of(user_stats, k),
                          !.level_up = level_up(xp_delta, credited[k].level, old_xp)]
          /\ msg_hist' = [msg_hist EXCEPT
                             ![k] = note_admitted(@, xp_delta, now)]
    /\ UNCHANGED <<MAIN_CHAT_ID, concurrent_updates, ADMIN_USER_IDS,
                   invite_links, invited_users, xp_keywords, bot_settings,
                   now, links_minted, backup_made, pending, join_count>>

\* cmd_daily: /daily of `user`, sent in `chat`
cmd_daily(chat, user) ==
    /\ CanDispatch
    /\ chat \in ChatsOf(user)
    /\ LET k == <<main_or(chat), user>>
           today == kst_date(now)
           already_today == k \in DOMAIN user_stats
                            /\ user_stats[k].last_daily # NULL
                            /\ user_stats[k].last_daily = today
       IN IF already_today
          THEN /\ reply' = Rejected("daily")
               /\ UNCHANGED <<user_stats, xp_log>>
          ELSE /\ LogRoom
               /\ user_stats' = Put(user_stats, k, daily_row(user_stats, k, today))
               /\ xp_log' = log_xp(xp_log, k[1], user, DailyBonus, 0, now)
               /\ reply' = [Answer("daily", k[1], user, TRUE) EXCEPT
                               !.xp_delta = DailyBonus,
                               !.old_xp = xp_of(user_stats, k),
                               !.old_count = count_of(user_stats, k)]
    /\ UNCHANGED <<MAIN_CHAT_ID, concurrent_updates, ADMIN_USER_IDS,
                   invite_links, invited_users, xp_keywords, bot_settings,
                   now, links_minted, backup_made, pending, msg_hist,
                   join_count>>

\* cmd_add_xp: /add_xp <target> <delta> of `admin`, sent in `chat`
cmd_add_xp(admin, chat, target, delta) ==
    /\ CanDispatch
    /\ chat \in ChatsOf(admin)
    /\ LET k == <<main_or(chat), target>>
       IN IF ~is_admin(admin) \/ delta <= 0
          THEN /\ reply' = Rejected("add_xp")
               /\ UNCHANGED <<user_stats, xp_log>>
          ELSE /\ LogRoom
               /\ user_stats' = add_xp(user_stats, k[1], target, delta)
               /\ xp_log' = log_xp(xp_log, k[1], target, delta, 0, now)
               /\ reply' = [Answer("add_xp", k[1], target, TRUE) EXCEPT
                               !.xp_delta = delta,
                               !.old_xp = xp_of(user_stats, k),
                               !.old_count = count_of(user_stats, k)]
    /\ UNCHANGED <<MAIN_CHAT_ID, concurrent_updates, ADMIN_USER_IDS,
                   invite_links, invited_users, xp_keywords, bot_settings,
                   now, links_minted, backup_made, pending, msg_hist,
                   join_count>>

\* variant of links_of that never finds the stored row
links_of_none(links, chat, user) == {}

\* the rows SELECT ... FROM invite_links WHERE chat_id=? AND inviter_id=? finds
links_of(links, chat, user) ==
    {t \in DOMAIN links : links[t].chat_id = chat /\ links[t].inviter_id = user}

\* cmd_mylink up to `await bot.create_chat_invite_link`
cmd_mylink(chat, user) ==
    /\ CanDispatch
    /\ IF chat_type(chat) # "group" \/ ~is_main_chat(chat)
       THEN /\ reply' = Rejected("mylink")
            /\ UNCHANGED pending
       ELSE IF links_of(invite_links, chat, user) # {}
       THEN /\ \E t \in links_of(invite_links, chat, user) :
                   reply' = [Answer("mylink", chat, user, TRUE) EXCEPT !.token = t]
            /\ UNCHANGED pending
       ELSE /\ links_minted + Cardinality(PendingLinks) < MaxLinks
            /\ pending' = Append(pending, [kind |-> "mylink", chat |-> chat,
                                           user |-> user, invite_xp |-> 0])
            /\ reply' = Answer("mylink_await", chat, user, FALSE)
    /\ UNCHANGED <<MAIN_CHAT_ID, concurrent_updates, ADMIN_USER_IDS,
                   user_stats, invite_links, invited_users, xp_keywords,
                   xp_log, bot_settings, now, links_minted, backup_made,
                   msg_hist, join_count>>

\* variant of links_after_mint that inserts the row before the call returns
links_after_mint_always(links, token, task, minted) ==
    Put(links, token, [chat_id |-> task.chat, inviter_id |-> task.user,
                       joined_count |-> 0])

\* cmd_mylink: invite_links after create_chat_invite_link returned or raised;
\* the handler returns from the except clause before the INSERT
links_after_mint(links, token, task, minted) ==
    IF minted
    THEN Put(links, token, [chat_id |-> task.chat, inviter_id |-> task.user,
                            joined_count |-> 0])
    ELSE links

\* cmd_mylink from the return of create_chat_invite_link: `minted` is FALSE
\* when the call raised
create_chat_invite_link(i, minted) ==
    /\ i \in PendingLinks
    /\ LET task == pending[i]
           token == links_minted + 1
       IN /\ invite_links' = links_after_mint(invite_links, token, task, minted)
          /\ IF minted
             THEN /\ links_minted' = token
                  /\ reply' = [Answer("mylink_new", task.chat, task.user, TRUE) EXCEPT
                                  !.token = token]
             ELSE /\ reply' = Answer("create_chat_invite_link", task.chat,
                                     task.user, FALSE)
                  /\ UNCHANGED links_minted
    /\ pending' = Remove(pending, i)
    /\ UNCHANGED <<MAIN_CHAT_ID, concurrent_updates, ADMIN_USER_IDS,
                   user_stats, invited_users, xp_keywords, xp_log,
                   bot_settings, now, backup_made, msg_hist, join_count>>

\* variant of link_found that looks the link up in every chat
link_found_in_any_chat(links, token, chat) == token \in DOMAIN links

\* handle_chat_member: whether SELECT ... FROM invite_links WHERE
\* invite_link=? AND chat_id=? finds a row
link_found(links, token, chat) ==
    token \in DOMAIN links /\ links[token].chat_id = chat

\* handle_chat_member: the UPDATE of joined_count
joined_link(link) == [link EXCEPT !.joined_count = @ + 1]

\* handle_chat_member up to `await context.bot.get_chat_member`: `new_user`
\* goes from old_status to new_status in `chat`, through invite link `token`
\* (NULL when the update carries none)
handle_chat_member(chat, new_user, old_status, new_status, token) ==
    /\ CanDispatch
    /\ chat \in GroupChats
    /\ IF \/ ~is_main_chat(chat)
          \/ ~(old_status \in {"left", "kicked"} /\ new_status \in {"member", "restricted"})
          \/ token = NULL
          \/ ~link_found(invite_links, token, chat)
       THEN /\ reply' = Rejected("join")
            /\ UNCHANGED <<invite_links, user_stats, pending, join_count>>
       ELSE LET inviter == invite_links[token].inviter_id
                invite_xp == bot_settings.invite_xp
            IN /\ invite_links[token].joined_count < MaxJoins
               /\ LogRoom
               /\ invite_links' = [invite_links EXCEPT ![token] = joined_link(@)]
               /\ user_stats' = Put(user_stats, <<chat, inviter>>,
                                    invited_row(user_stats, <<chat, inviter>>))
               /\ join_count' = [join_count EXCEPT ![<<chat, new_user>>] = @ + 1]
               /\ pending' = IF invite_xp > 0
                             THEN Append(pending, [kind |-> "join", chat |-> chat,
                                                   user |-> inviter,
                                                   invite_xp |-> invite_xp])
                             ELSE pending
               /\ reply' = [Answer(IF invite_xp > 0 THEN "join_await" ELSE "join",
                                   chat, new_user, TRUE) EXCEPT !.token = token]
    /\ UNCHANGED <<MAIN_CHAT_ID, concurrent_updates, ADMIN_USER_IDS,
                   invited_users, xp_keywords, xp_log, bot_settings, now,
                   links_minted, backup_made, msg_hist>>

\* handle_chat_member from the return of get_chat_member: `found` is FALSE
\* when the call raised, which the handler's try/except swallows
get_chat_member(i, found) ==
    /\ i \in PendingJoins
    /\ LET task == pending[i]
           k == <<task.chat, task.user>>
       IN IF found
          THEN /\ user_stats' = add_xp(user_stats, task.chat, task.user, task.invite_xp)
               /\ xp_log' = log_xp(xp_log, task.chat, task.user, task.invite_xp, 0, now)
               /\ reply' = [Answer("join_credit", task.chat, task.user, TRUE) EXCEPT
                               !.xp_delta = task.invite_xp,
                               !.old_xp = xp_of(user_stats, k),
                               !.old_count = count_of(user_stats, k)]
          ELSE /\ reply' = Answer("join_credit", task.chat, task.user, FALSE)
               /\ UNCHANGED <<user_stats, xp_log>>
    /\ pending' = Remove(pending, i)
    /\ UNCHANGED <<MAIN_CHAT_ID, concurrent_updates, ADMIN_USER_IDS,
                   invite_links, invited_users, xp_keywords, bot_settings,
                   now, links_minted, backup_made, msg_hist, join_count>>

\* " ".join(args): the words with a space between them
join_args(args) ==
    [i \in 1..(2 * Len(args) - 1) |-> IF i % 2 = 1 THEN args[(i + 1) \div 2] ELSE " "]

\* the phrase of cmd_resetxp (the source's is Korean for "I agree.")
confirmation_text == <<"agree.">>

ResetArgs ==
    {<<>>, <<"total">>, <<"total", "agree.">>, <<"total", "agree">>,
     <<"all", "agree.">>, <<"total", "agree.", "agree.">>}

\* variant of confirmed that accepts any second word
confirmed_any(args) == Len(args) >= 2

\* cmd_resetxp: whether the arguments ask for the second phase
confirmed(args) ==
    Len(args) >= 2 /\ join_args(Tail(args)) = confirmation_text

\* cmd_resetxp: /resetxp args of `user`; `zipped` is FALSE when
\* backup_db_to_zip raises
cmd_resetxp(user, args, zipped) ==
    /\ CanDispatch
    /\ IF ~is_owner(user) \/ MAIN_CHAT_ID = 0 \/ args = <<>> \/ args[1] # "total"
       THEN /\ reply' = Rejected("resetxp")
            /\ UNCHANGED <<user_stats, backup_made, msg_hist>>
       ELSE IF confirmed(args)
       THEN /\ user_stats' = reset_rows(user_stats, MAIN_CHAT_ID)
            /\ msg_hist' = note_reset(msg_hist, MAIN_CHAT_ID)
            /\ reply' = Answer("resetxp", MAIN_CHAT_ID, user, TRUE)
            /\ UNCHANGED backup_made
       ELSE /\ backup_made' = (backup_made \/ zipped)
            /\ reply' = Answer("resetxp_backup", MAIN_CHAT_ID, user, zipped)
            /\ UNCHANGED <<user_stats, msg_hist>>
    /\ UNCHANGED <<MAIN_CHAT_ID, concurrent_updates, ADMIN_USER_IDS,
                   invite_links, invited_users, xp_keywords, xp_log,
                   bot_settings, now, links_minted, pending, join_count>>

\* cmd_setcooldown, cmd_setdailycap, cmd_setinvxp: `field` := max(0, value)
set_setting(settings, field, value) ==
    [settings EXCEPT ![field] = max0(value)]

cmd_set(op, field, user, value) ==
    /\ CanDispatch
    /\ IF ~is_admin(user)
       THEN /\ reply' = Rejected(op)
            /\ UNCHANGED bot_settings
       ELSE /\ bot_settings' = set_setting(bot_settings, field, value)
            /\ reply' = [Answer(op, 0, user, TRUE) EXCEPT
                             !.value = value, !.old_value = bot_settings[field]]
    /\ UNCHANGED <<MAIN_CHAT_ID, concurrent_updates, ADMIN_USER_IDS,
                   user_stats, invite_links, invited_users, xp_keywords,
                   xp_log, now, links_minted, backup_made, pending, msg_hist,
                   join_count>>

cmd_setcooldown(user, value) == cmd_set("setcooldown", "cooldown_seconds", user, value)

cmd_setdailycap(user, value) == cmd_set("setdailycap", "daily_xp_cap", user, value)

cmd_setinvxp(user, value) == cmd_set("setinvxp", "invite_xp", user, value)

\* time passes
TickSteps == {3, 7}

Tick(d) ==
    /\ now + d <= StartTime + MaxElapsed
    /\ now' = now + d
    /\ UNCHANGED <<MAIN_CHAT_ID, concurrent_updates, ADMIN_USER_IDS,
                   user_stats, invite_links, invited_users, xp_keywords,
                   xp_log, bot_settings, links_minted, backup_made, pending,
                   reply, msg_hist, join_count>>


\* cmd_addxpbonus, cmd_addxpblock: the upsert of a keyword row
keyword_row(mode, delta) == [mode |-> mode, delta |-> delta]

\* cmd_addxpbonus: /addxpbonus word delta of `user`, sent in `chat`
cmd_addxpbonus(user, chat, word, delta) ==
    /\ CanDispatch
    /\ chat \in ChatsOf(user)
    /\ IF ~is_admin(user) \/ ~is_private_chat(chat)
       THEN /\ reply' = Rejected("addxpbonus")
            /\ UNCHANGED xp_keywords
       ELSE /\ xp_keywords' = Put(xp_keywords, word, keyword_row("bonus", delta))
            /\ reply' = Answer("addxpbonus", chat, user, TRUE)
    /\ UNCHANGED <<MAIN_CHAT_ID, concurrent_updates, ADMIN_USER_IDS,
                   user_stats, invite_links, invited_users, xp_log,
                   bot_settings, now, links_minted, backup_made, pending,
                   msg_hist, join_count>>

\* cmd_addxpblock: /addxpblock word of `user`, sent in `chat`
cmd_addxpblock(user, chat, word) ==
    /\ CanDispatch
    /\ chat \in ChatsOf(user)
    /\ IF ~is_admin(user) \/ ~is_private_chat(chat)
       THEN /\ reply' = Rejected("addxpblock")
            /\ UNCHANGED xp_keywords
       ELSE /\ xp_keywords' = Put(xp_keywords, word, keyword_row("block", 0))
            /\ reply' = Answer("addxpblock", chat, user, TRUE)
    /\ UNCHANGED <<MAIN_CHAT_ID, concurrent_updates, ADMIN_USER_IDS,
                   user_stats, invite_links, invited_users, xp_log,
                   bot_settings, now, links_minted, backup_made, pending,
                   msg_hist, join_count>>

\* cmd_delxpword: /delxpword word of `user`, sent in `chat`
cmd_delxpword(user, chat, word) ==
    /\ CanDispatch
    /\ chat \in ChatsOf(user)
    /\ IF ~is_admin(user) \/ ~is_private_chat(chat)
       THEN /\ reply' = Rejected("delxpword")
            /\ UNCHANGED xp_keywords
       ELSE /\ xp_keywords' = [w \in DOMAIN xp_keywords \ {word} |-> xp_keywords[w]]
            /\ reply' = Answer("delxpword", chat, user, word \in DOMAIN xp_keywords)
    /\ UNCHANGED <<MAIN_CHAT_ID, concurrent_updates, ADMIN_USER_IDS,
                   user_stats, invite_links, invited_users, xp_log,
                   bot_settings, now, links_minted, backup_made, pending,
                   msg_hist, join_count>>

\* reload_admins after the INSERT OR IGNORE of cmd_addadmin
admins_after_add(admins, target_id) == admins \cup {target_id}

\* reload_admins after the DELETE of cmd_deladmin
admins_after_del(admins, target_id) == admins \ {target_id}

\* cmd_addadmin: /addadmin target_id of `user`, sent in `chat`
cmd_addadmin(user, chat, target_id) ==
    /\ CanDispatch
    /\ chat \in ChatsOf(user)
    /\ IF ~is_owner(user) \/ ~is_private_chat(chat)
       THEN /\ reply' = Rejected("addadmin")
            /\ UNCHANGED ADMIN_USER_IDS
       ELSE /\ ADMIN_USER_IDS' = admins_after_add(ADMIN_USER_IDS, target_id)
            /\ reply' = [Answer("addadmin", chat, user, TRUE) EXCEPT !.value = target_id]
    /\ UNCHANGED <<MAIN_CHAT_ID, concurrent_updates, user_stats, invite_links,
                   invited_users, xp_keywords, xp_log, bot_settings, now,
                   links_minted, backup_made, pending, msg_hist, join_count>>

\* cmd_deladmin: /deladmin target_id of `user`, sent in `chat`
cmd_deladmin(user, chat, target_id) ==
    /\ CanDispatch
    /\ chat \in ChatsOf(user)
    /\ IF ~is_owner(user) \/ ~is_private_chat(chat)
       THEN /\ reply' = Rejected("deladmin")
            /\ UNCHANGED ADMIN_USER_IDS
       ELSE /\ ADMIN_USER_IDS' = admins_after_del(ADMIN_USER_IDS, target_id)
            /\ reply' = [Answer("deladmin", chat, user, TRUE) EXCEPT !.value = target_id]
    /\ UNCHANGED <<MAIN_CHAT_ID, concurrent_updates, user_stats, invite_links,
                   invited_users, xp_keywords, xp_log, bot_settings, now,
                   links_minted, backup_made, pending, msg_hist, join_count>>

----------------------------------------------------------------------------
(* Specifications *)

\* the bot_settings row that init_db inserts
DefaultSettings ==
    [cooldown_seconds |-> DefaultCooldown,
     daily_xp_cap |-> DefaultDailyCap,
     invite_xp |-> DefaultInviteXp]

\* init_db and the environment; init_db inserts DefaultSettings unless the
\* database file already holds a bot_settings row
InitDb(settings) ==
    /\ MAIN_CHAT_ID \in {0, MainGroup}
    /\ ADMIN_USER_IDS = {}
    /\ user_stats = <<>>
    /\ invite_links = <<>>
    /\ invited_users = <<>>
    /\ xp_keywords = [w \in DefaultKeywords |-> keyword_row("block", 0)]
    /\ xp_log = <<>>
    /\ bot_settings = settings
    /\ now = StartTime
    /\ links_minted = 0
    /\ backup_made = FALSE
    /\ pending = <<>>
    /\ reply = NoReply
    /\ msg_hist = [k \in GroupKeys |-> NoHist]
    /\ join_count = [k \in GroupKeys |-> 0]

Init == InitDb(DefaultSettings) /\ concurrent_updates = FALSE

\* texts of 3, 5 and 47 non-space characters, symbols only, filler, and
\* filler inside a text
ShortText == <<"a", "b", "s">>
EmojiText == Rep("!", 5)
PlainText == <<"a", "b", " ", "s", "A", "7">>
LongText == Rep("a", 47)
FillerText == Rep(KH, 6)
KekText == <<KH, KH, "a", "b", "s", "7">>

Transitions == {<<"left", "member">>, <<"member", "left">>}

ResetWords == {<<"total", "agree.">>, <<"total">>}

\* The ledger: every handler that writes user_stats, one at a time; user 1
\* (the owner) invites, user 2 writes, claims, joins and is credited.
Next ==
    \/ handle_message(MainGroup, 2, LongText)
    \/ cmd_daily(MainGroup, 2)
    \/ \E a \in Users, d \in {0, 99} : cmd_add_xp(a, PrivateChat(a), 2, d)
    \/ cmd_mylink(MainGroup, 1)
    \/ \E i \in DOMAIN pending, minted \in BOOLEAN : create_chat_invite_link(i, minted)
    \/ \E tr \in Transitions, t \in {0, 1} : handle_chat_member(MainGroup, 2, tr[1], tr[2], t)
    \/ \E i \in DOMAIN pending, found \in BOOLEAN : get_chat_member(i, found)
    \/ \E args \in ResetArgs, zipped \in BOOLEAN : cmd_resetxp(OWNER_ID, args, zipped)
    \/ cmd_resetxp(2, <<"total">> \o confirmation_text, TRUE)
    \/ Tick(DefaultCooldown)

Spec == Init /\ [][Next]_vars

----------------------------------------------------------------------------
(* Properties of the ledger *)

\* C1: in every reachable state, the level column of every user_stats row is
\* the level computed from the row's xp.
C1_LevelMatchesXp ==
    \A k \in DOMAIN user_stats : user_stats[k].level = calc_level(user_stats[k].xp)

\* a member has crossed the first level threshold
C1_Witness ==
    \E k \in DOMAIN user_stats : user_stats[k].xp >= 100 /\ user_stats[k].level = 2

\* C4: a join of a <<chat, new user>> pair is attributed at most once; a
\* second join of the same pair changes nothing.
C4_JoinAttributedOnce == \A k \in GroupKeys : join_count[k] <= 1

\* C5: /mylink right after an answer that carried the member's link answers
\* the same token, and neither asks the platform for a link nor adds a row.
C5_MylinkIdempotent ==
    [][\A c \in GroupChats, u \in Users :
          (/\ reply.op \in {"mylink", "mylink_new"}
           /\ reply.chat = c /\ reply.user = u
           /\ cmd_mylink(c, u))
          => (/\ reply'.op = "mylink"
              /\ reply'.token = reply.token
              /\ invite_links' = invite_links
              /\ links_minted' = links_minted
              /\ pending' = pending)]_vars

\* the second /mylink has answered the link that the first one minted
C5_Witness ==
    /\ reply.op = "mylink"
    /\ reply.token \in DOMAIN invite_links
    /\ links_minted = 1

\* C7: a /resetxp step changes user_stats only when the sender is the owner,
\* the main chat is configured and the arguments are `total` followed by
\* exactly the confirmation phrase.
C7_ResetOnlyWhenAuthorized ==
    [][\A u \in Users, args \in ResetArgs, zipped \in BOOLEAN :
          (/\ reply'.op \in {"resetxp", "resetxp_backup"}
           /\ user_stats' # user_stats
           /\ cmd_resetxp(u, args, zipped))
          => (/\ is_owner(u)
              /\ MAIN_CHAT_ID # 0
              /\ args = <<"total">> \o confirmation_text)]_vars

\* the reset has zeroed a member who had been credited
C7_Witness ==
    /\ reply.op = "resetxp"
    /\ \E k \in DOMAIN user_stats :
          /\ k[1] = MAIN_CHAT_ID
          /\ user_stats[k].xp = 0
          /\ \E i \in DOMAIN xp_log :
                /\ xp_log[i].chat_id = k[1]
                /\ xp_log[i].user_id = k[2]
                /\ xp_log[i].xp_delta > 0

\* C8: whenever the reset has run, a backup zip had been written before it.
C8_BackupBeforeReset == reply.op = "resetxp" => backup_made

\* C10: while invite_xp > 0, a join whose counters were applied also credits
\* the inviter: the resumed handler never ends without the credit.
C10_JoinAllOrNothing == reply.op = "join_credit" => reply.ok

\* C12: xp_log is append-only: every step leaves the rows it had in place,
\* so the log of a later state extends the log of an earlier one; the
\* executed reset leaves it as it is.
C12_LogAppendOnly ==
    [][/\ Len(xp_log') >= Len(xp_log)
       /\ SubSeq(xp_log', 1, Len(xp_log)) = xp_log
       /\ (reply'.op = "resetxp" /\ reply'.ok) => xp_log' = xp_log]_vars

\* the reset has run on a ledger with two logged credits
C12_Witness ==
    /\ reply.op = "resetxp"
    /\ reply.ok
    /\ Len(xp_log) = MaxLog
    /\ \A i \in DOMAIN xp_log : xp_log[i].xp_delta > 0 /\ xp_log[i].chat_id = MAIN_CHAT_ID

\* C13: a daily claim, a manual admin credit and an invite credit leave the
\* member's messages_count as it was (0 for a row they create); only a
\* message raises it.
C13_CountOnlyMessages ==
    (reply.op \in {"daily", "add_xp", "join_credit"} /\ reply.ok)
    => count_of(user_stats, <<reply.chat, reply.user>>) = reply.old_count

\* C15: a message announces a level-up exactly when it was admitted a
\* positive delta and the level of the new xp is above the level of the xp
\* before the credit.
C15_LevelUpExactly ==
    reply.op = "message"
    => LET xp == user_stats[<<reply.chat, reply.user>>].xp
       IN reply.level_up
          <=> (/\ reply.xp_delta > 0
               /\ calc_level(xp) > calc_level(xp - reply.xp_delta))

\* a message took its sender over the first threshold and announced it
C15_Witness ==
    /\ reply.op = "message"
    /\ reply.level_up
    /\ reply.old_xp < 100
    /\ user_stats[<<reply.chat, reply.user>>].xp >= 100

\* the xp_log rows of a member
rows_of_member(log, key) ==
    {i \in DOMAIN log : log[i].chat_id = key[1] /\ log[i].user_id = key[2]}

\* the invited_users rows that name an invite link
invited_through(invited, token) ==
    {k \in DOMAIN invited : invited[k].invite_link = token}

\* C24: after a join through a stored link is counted, invited_users holds a
\* row for the new member naming the inviter and the link, and the
\* joined_count of every link is the number of invited_users rows naming it.
C24_InvitedUserRecorded ==
    /\ (reply.op \in {"join", "join_await"} /\ reply.ok)
       => /\ <<reply.chat, reply.user>> \in DOMAIN invited_users
          /\ invited_users[<<reply.chat, reply.user>>].invite_link = reply.token
          /\ invited_users[<<reply.chat, reply.user>>].inviter_id
                = invite_links[reply.token].inviter_id
    /\ \A t \in DOMAIN invite_links :
          invite_links[t].joined_count
            = Cardinality(invited_through(invited_users, t))

\* C25: every credit that takes a member to a higher level, be it a message,
\* a daily claim, an admin credit or an invite credit, is answered with the
\* level-up notice.
C25_EveryLevelUpAnnounced ==
    (/\ reply.op \in {"message", "daily", "add_xp", "join_credit"}
     /\ reply.ok
     /\ reply.xp_delta > 0
     /\ calc_level(reply.old_xp + reply.xp_delta) > calc_level(reply.old_xp))
    => reply.level_up

\* C30: when create_chat_invite_link raises, /mylink ends without a row in
\* invite_links and without any other change to the tables, and the next
\* /mylink of the same member in the same chat asks the platform again.
C30_FailedMintLeavesNothing ==
    [][/\ \A i \in DOMAIN pending :
             (/\ reply'.op = "create_chat_invite_link"
              /\ create_chat_invite_link(i, FALSE))
             => /\ UNCHANGED <<invite_links, invited_users, user_stats, xp_log,
                               xp_keywords, bot_settings, links_minted>>
                /\ links_of(invite_links', pending[i].chat, pending[i].user) = {}
                /\ pending' = Remove(pending, i)
       /\ (/\ reply.op = "create_chat_invite_link"
           /\ reply'.op \in {"mylink", "mylink_await"}
           /\ cmd_mylink(reply.chat, reply.user))
          => /\ reply'.op = "mylink_await"
             /\ Len(pending') = Len(pending) + 1
             /\ pending'[Len(pending')].kind = "mylink"
             /\ pending'[Len(pending')].chat = reply.chat
             /\ pending'[Len(pending')].user = reply.user]_vars

\* the platform has refused a member's link: the member has no row in
\* invite_links, no link was ever stored and nothing is left suspended
C30_Witness ==
    /\ reply.op = "create_chat_invite_link"
    /\ ~reply.ok
    /\ links_of(invite_links, reply.chat, reply.user) = {}
    /\ links_minted = 0
    /\ pending = <<>>

----------------------------------------------------------------------------
(* Anti-spam: cooldown and daily cap *)

\* settings rows left by /setcooldown and /setdailycap of an earlier run
TightSettings == [DefaultSettings EXCEPT !.cooldown_seconds = 3, !.daily_xp_cap = 4]
CapOnlySettings == [DefaultSettings EXCEPT !.cooldown_seconds = 0, !.daily_xp_cap = 3]

InitAntiSpam ==
    /\ \E settings \in {DefaultSettings, TightSettings, CapOnlySettings} : InitDb(settings)
    /\ concurrent_updates = FALSE

NextAntiSpam ==
    \/ \E u \in Users : handle_message(MainGroup, u, PlainText)
    \/ cmd_daily(MainGroup, 1)
    \/ \E a \in Users : cmd_add_xp(a, PrivateChat(a), 1, 99)
    \/ \E args \in ResetWords, zipped \in BOOLEAN : cmd_resetxp(OWNER_ID, args, zipped)
    \/ \E d \in TickSteps : Tick(d)

SpecAntiSpam == InitAntiSpam /\ [][NextAntiSpam]_vars

\* the member a message step was about, and what it left in user_stats
Sender == <<reply.chat, reply.user>>

\* C2 as stated: with a cooldown c > 0, two messages of a member that both
\* earn XP are at least c seconds apart, whatever happens between them.
C2_AdmittedApartEver ==
    \A k \in GroupKeys :
        (bot_settings.cooldown_seconds > 0 /\ msg_hist[k].ever.prev_admit_at # NULL)
        => msg_hist[k].ever.last_admit_at - msg_hist[k].ever.prev_admit_at
               >= bot_settings.cooldown_seconds

\* C2: with a cooldown c > 0, two messages of a member that both earn XP
\* with no reset of the member's row between them are at least c seconds
\* apart; every message, admitted or not, raises messages_count by one.
C2_AdmittedApart ==
    /\ \A k \in GroupKeys :
          (bot_settings.cooldown_seconds > 0 /\ msg_hist[k].run.prev_admit_at # NULL)
          => msg_hist[k].run.last_admit_at - msg_hist[k].run.prev_admit_at
                 >= bot_settings.cooldown_seconds
    /\ reply.op = "message"
       => (/\ Sender \in DOMAIN user_stats
           /\ user_stats[Sender].messages_count = reply.old_count + 1)

\* a message inside the cooldown earned nothing and was counted
C2_Witness ==
    /\ reply.op = "message"
    /\ reply.xp_delta = 0
    /\ bot_settings = DefaultSettings
    /\ msg_hist[Sender].run.last_admit_at # NULL
    /\ now - msg_hist[Sender].run.last_admit_at < bot_settings.cooldown_seconds
    /\ user_stats[Sender].messages_count = 2

\* C3 as stated: with a cap K > 0, the message XP admitted to a member on
\* one reporting day never exceeds K, whatever happens in between.
C3_DaySumWithinCapEver ==
    \A k \in GroupKeys :
        bot_settings.daily_xp_cap > 0
        => msg_hist[k].ever.day_sum <= bot_settings.daily_xp_cap

\* C3: with a cap K > 0, the message XP admitted to a member on one
\* reporting day since the last reset of the member's row never exceeds K.
C3_DaySumWithinCap ==
    \A k \in GroupKeys :
        bot_settings.daily_xp_cap > 0
        => msg_hist[k].run.day_sum <= bot_settings.daily_xp_cap

\* the second admitted message of the day was clamped to what the cap left
C3_Witness ==
    /\ reply.op = "message"
    /\ reply.xp_delta > 0
    /\ reply.xp_delta < text_xp(xp_keywords, PlainText)
    /\ msg_hist[Sender].run.prev_admit_at # NULL
    /\ msg_hist[Sender].run.day_sum = bot_settings.daily_xp_cap

\* the xp_log rows of the daily claims granted to a member on a KST day
daily_rows(log, key, day) ==
    {i \in rows_of_member(log, key) :
        /\ log[i].xp_delta = DailyBonus
        /\ log[i].msg_len = 0
        /\ kst_date(fromisoformat(log[i].created_at)) = day}

\* C22 as stated: a member is granted at most one daily claim per KST day,
\* whatever happens in between.
C22_OneGrantPerDayEver ==
    \A k \in GroupKeys, day \in {kst_date(StartTime), kst_date(StartTime) + 1} :
        Cardinality(daily_rows(xp_log, k, day)) <= 1

\* C22: /daily is denied exactly when the member's row records a claim of
\* the current KST day, that is when one was granted today since the last
\* reset of the row; a denied claim leaves user_stats and xp_log as they were,
\* and a granted one adds exactly 50 to xp, appends one xp_log row of 50 and
\* records the day.
C22_OneGrantPerDay ==
    [][\A c \in AllChats, u \in Users :
          (/\ reply'.op = "daily"
           /\ cmd_daily(c, u))
          => LET k == <<main_or(c), u>>
                 today == kst_date(now)
             IN IF k \in DOMAIN user_stats /\ user_stats[k].last_daily = today
                THEN /\ ~reply'.ok
                     /\ UNCHANGED <<user_stats, xp_log>>
                ELSE /\ reply'.ok
                     /\ user_stats'[k].xp = xp_of(user_stats, k) + 50
                     /\ user_stats'[k].last_daily = today
                     /\ \A j \in DOMAIN user_stats \ {k} : user_stats'[j] = user_stats[j]
                     /\ Len(xp_log') = Len(xp_log) + 1
                     /\ SubSeq(xp_log', 1, Len(xp_log)) = xp_log
                     /\ xp_log'[Len(xp_log')].xp_delta = 50
                     /\ <<xp_log'[Len(xp_log')].chat_id,
                          xp_log'[Len(xp_log')].user_id>> = k]_vars

\* a claim has been denied to a member who had claimed on this day and on
\* the day before
C22_Witness ==
    /\ reply = Rejected("daily")
    /\ \E k \in DOMAIN user_stats :
          /\ user_stats[k].last_daily = kst_date(now)
          /\ user_stats[k].xp = 2 * DailyBonus
          /\ Cardinality(daily_rows(xp_log, k, kst_date(now))) = 1
          /\ Cardinality(daily_rows(xp_log, k, kst_date(now) - 1)) = 1

min2(a, b) == IF a < b THEN a ELSE b

\* C23: with a daily cap K > 0, a message whose delta before the cap is
\* d > 0 is admitted min(d, max(0, K - a)), where a is the daily_xp of the
\* sender's row when it is dated today and 0 when it is dated another day or
\* there is no row; K = 10, a = 8, d = 7 admits 2.
C23_PartialAdmission ==
    [][(/\ reply'.op = "message"
        /\ handle_message(reply'.chat, reply'.user, reply'.text))
       => LET k == <<reply'.chat, reply'.user>>
              K == bot_settings.daily_xp_cap
              a == IF k \in DOMAIN user_stats
                      /\ user_stats[k].daily_xp_date = kst_date(now)
                   THEN user_stats[k].daily_xp
                   ELSE 0
              last == IF k \in DOMAIN user_stats /\ user_stats[k].last_xp_at # NoIso
                      THEN fromisoformat(user_stats[k].last_xp_at)
                      ELSE NULL
              d == after_cooldown(text_xp(xp_keywords, reply'.text),
                                  bot_settings.cooldown_seconds, last, now)
          IN /\ after_daily_cap(7, 10, 8) = 2
             /\ (K > 0 /\ d > 0) => reply'.xp_delta = min2(d, max0(K - a))]_vars

\* under a cap that two messages exceed, the second message was admitted
\* whole because the first one was of the day before
C23_Witness ==
    /\ reply.op = "message"
    /\ bot_settings.daily_xp_cap > 0
    /\ reply.old_xp > 0
    /\ reply.old_xp + reply.xp_delta > bot_settings.daily_xp_cap
    /\ reply.xp_delta = text_xp(xp_keywords, reply.text)
    /\ user_stats[Sender].daily_xp = reply.xp_delta
    /\ user_stats[Sender].daily_xp_date = kst_date(now)
    /\ \E i \in rows_of_member(xp_log, Sender) :
          /\ xp_log[i].xp_delta > 0
          /\ xp_log[i].msg_len > 0
          /\ kst_date(fromisoformat(xp_log[i].created_at)) < kst_date(now)

----------------------------------------------------------------------------
(* Keyword rules *)

KeywordWords == {<<"S", "A">>, <<"b">>, <<KH, KH>>}

NextKeywords ==
    \/ \E text \in {ShortText, EmojiText, PlainText, KekText, FillerText} :
           handle_message(MainGroup, 2, text)
    \/ \E a \in Users, c \in AllChats, w \in KeywordWords : cmd_addxpbonus(a, c, w, 2)
    \/ \E a \in Users, c \in AllChats, w \in KeywordWords : cmd_addxpblock(a, c, w)
    \/ \E a \in Users, c \in AllChats, w \in KeywordWords : cmd_delxpword(a, c, w)

SpecKeywords == Init /\ [][NextKeywords]_vars

\* the block rules whose word the text contains, case-insensitively
block_rules_in(keywords, text) ==
    {w \in DOMAIN keywords :
        keywords[w].mode = "block" /\ contains(lower(w), lower(text))}

\* the bonus rules whose word the text contains, case-insensitively
bonus_rules_in(keywords, text) ==
    {w \in DOMAIN keywords :
        keywords[w].mode = "bonus" /\ contains(lower(w), lower(text))}

\* C6 as stated: a message whose text contains the word of any block rule
\* earns no XP.
C6_AnyBlockEarnsNothing ==
    (reply.op = "message" /\ block_rules_in(xp_keywords, reply.text) # {})
    => reply.xp_delta = 0

\* C6: a message whose text contains the word of a block rule other than
\* the two built-in filler words earns no XP, whatever bonus rules match
\* and whatever its length.
C6_BlockedEarnsNothing ==
    (reply.op = "message"
     /\ block_rules_in(xp_keywords, reply.text) \ DefaultKeywords # {})
    => reply.xp_delta = 0

\* a member's first message matched a block rule and a bonus rule
C6_Witness ==
    /\ reply.op = "message"
    /\ reply.old_count = 0
    /\ base_xp_of(reply.text) > 0
    /\ block_rules_in(xp_keywords, reply.text) \ DefaultKeywords # {}
    /\ \E w \in bonus_rules_in(xp_keywords, reply.text) : xp_keywords[w].delta > 0
    /\ reply.xp_delta = 0

\* C11: every message handled in a group chat appends exactly one xp_log row,
\* of the sender, whose xp_delta is the XP the message added to the sender's
\* row, also when that is 0.
C11_MessageLoggedOnce ==
    [][(/\ reply'.op = "message"
        /\ handle_message(reply'.chat, reply'.user, reply'.text))
       => (/\ Len(xp_log') = Len(xp_log) + 1
           /\ SubSeq(xp_log', 1, Len(xp_log)) = xp_log
           /\ LET row == xp_log'[Len(xp_log')]
                  k == <<reply'.chat, reply'.user>>
              IN /\ <<row.chat_id, row.user_id>> = k
                 /\ row.xp_delta = xp_of(user_stats', k) - xp_of(user_stats, k)
                 /\ row.xp_delta = reply'.xp_delta)]_vars

\* a symbols-only message after an admitted one: both are in the log
C11_Witness ==
    /\ reply.op = "message"
    /\ reply.text = EmojiText
    /\ reply.xp_delta = 0
    /\ Len(xp_log) = 2
    /\ xp_log[1].xp_delta > 0
    /\ xp_log[2].xp_delta = 0
    /\ xp_log[2].msg_len = 5

----------------------------------------------------------------------------
(* Handlers running concurrently *)

InitConcurrent == InitDb(DefaultSettings) /\ concurrent_updates = TRUE

NextConcurrent ==
    \/ handle_message(MainGroup, 1, PlainText)
    \/ cmd_setcooldown(OWNER_ID, 0)
    \/ cmd_mylink(MainGroup, 1)
    \/ \E i \in DOMAIN pending, minted \in BOOLEAN : create_chat_invite_link(i, minted)
    \/ \E t \in 1..MaxLinks : handle_chat_member(MainGroup, 2, "left", "member", t)
    \/ \E i \in DOMAIN pending, found \in BOOLEAN : get_chat_member(i, found)

SpecConcurrent == InitConcurrent /\ [][NextConcurrent]_vars

\* the xp_log rows of a member
rows_of(log, key) ==
    {i \in DOMAIN log : log[i].chat_id = key[1] /\ log[i].user_id = key[2]}

RECURSIVE sum_xp(_, _)
sum_xp(log, rows) ==
    IF rows = {} THEN 0
    ELSE LET i == CHOOSE x \in rows : TRUE
         IN log[i].xp_delta + sum_xp(log, rows \ {i})

\* C9: however message handlers and the suspended /mylink and join handlers
\* interleave, no credit is lost: a member's xp is the sum of the deltas
\* admitted to it and messages_count is the number of its credits.
C9_NoLostIncrement ==
    \A k \in GroupKeys :
        /\ xp_of(user_stats, k) = sum_xp(xp_log, rows_of(xp_log, k))
        /\ count_of(user_stats, k) = Cardinality(rows_of(xp_log, k))

\* two messages of one member at the same instant were both admitted while
\* another handler was suspended
C9_Witness ==
    /\ pending # <<>>
    /\ reply.op = "message"
    /\ reply.xp_delta > 0
    /\ Len(xp_log) = 2
    /\ \A i \in DOMAIN xp_log :
          /\ <<xp_log[i].chat_id, xp_log[i].user_id>> = Sender
          /\ xp_log[i].created_at = isoformat(now)
          /\ xp_log[i].msg_len > 0
          /\ xp_log[i].xp_delta > 0
    /\ user_stats[Sender].xp = reply.old_xp + reply.xp_delta
    /\ user_stats[Sender].messages_count = 2

----------------------------------------------------------------------------
(* Levels of every xp up to MaxXp *)

\* One credit on an empty ledger: a message that earns nothing leaves xp = 0,
\* an admin credit of d leaves xp = d, each with the level calc_level gives it.
NextLevels ==
    \/ xp_log = <<>> /\ handle_message(MainGroup, 2, ShortText)
    \/ \E d \in 1..MaxXp :
           xp_log = <<>> /\ cmd_add_xp(OWNER_ID, PrivateChat(OWNER_ID), 2, d)

SpecLevels == Init /\ [][NextLevels]_vars

\* C14: calc_level is non-decreasing in xp >= 0, and calc_level(0) = 1,
\* calc_level(99) = 1, calc_level(100) = 2.
C14_LevelMonotone ==
    /\ calc_level(0) = 1
    /\ calc_level(99) = 1
    /\ calc_level(100) = 2
    /\ \A k \in DOMAIN user_stats :
          /\ user_stats[k].level = calc_level(user_stats[k].xp)
          /\ \A y \in 0..user_stats[k].xp : calc_level(y) <= user_stats[k].level

\* the credit that reaches the second threshold
C14_Witness ==
    \E k \in DOMAIN user_stats : user_stats[k].xp = 400 /\ user_stats[k].level = 3

\* C39: for every xp >= 0 a row can hold, with L its level: xp is below
\* xp_for_next_level(L), so the distance /stats shows is positive, and
\* calc_level of that threshold is L + 1; the row's level is calc_level(xp).
C39_NextLevelThreshold ==
    \A k \in DOMAIN user_stats :
        LET xp == user_stats[k].xp
            level == calc_level(xp)
        IN /\ xp >= 0
           /\ user_stats[k].level = level
           /\ xp < xp_for_next_level(level)
           /\ calc_level(xp_for_next_level(level)) = level + 1

\* a row one XP short of the third level
C39_Witness ==
    \E k \in DOMAIN user_stats :
        /\ user_stats[k].level = 2
        /\ xp_for_next_level(user_stats[k].level) - user_stats[k].xp = 1


-----------------------------------------------------------------------------
(* Settings commands *)

\* the values given to the settings commands: a negative one and a small one
SettingValues == {-1, 4}

SetOps == {"setcooldown", "setdailycap", "setinvxp"}

\* the bot_settings column a settings command writes
column_of(op) ==
    CASE op = "setcooldown" -> "cooldown_seconds"
      [] op = "setdailycap" -> "daily_xp_cap"
      [] OTHER -> "invite_xp"

NextSettings ==
    \/ \E u \in Users, v \in SettingValues : cmd_setcooldown(u, v)
    \/ \E u \in Users, v \in SettingValues : cmd_setdailycap(u, v)
    \/ \E u \in Users, v \in SettingValues : cmd_setinvxp(u, v)
    \/ handle_message(MainGroup, 2, PlainText)
    \/ Tick(3)

SpecSettings == Init /\ [][NextSettings]_vars

\* C16: a settings command given a negative value is rejected and the
\* setting it names stays as it was.
C16_NegativeRejected ==
    (reply.op \in SetOps /\ reply.value < 0)
    => (/\ ~reply.ok
        /\ bot_settings[column_of(reply.op)] = reply.old_value)


-----------------------------------------------------------------------------
(* Summaries of a range of KST days *)

\* `<` of two isoformat strings
iso_less(a, b) == a[1] < b[1] \/ (a[1] = b[1] /\ a[2] < b[2])

\* variant of the window test that takes the end instant in
in_window_closed(at, start_iso, end_iso) ==
    ~iso_less(at, start_iso) /\ ~iso_less(end_iso, at)

\* `created_at >= ? AND created_at < ?`
in_window(at, start_iso, end_iso) ==
    ~iso_less(at, start_iso) /\ iso_less(at, end_iso)

\* midnight of a KST date as a UTC isoformat string
kst_midnight_utc(d) == isoformat(d * DaySeconds - KstOffset)

\* the xp_log rows of the main group
main_rows(log) == {i \in DOMAIN log : log[i].chat_id = MAIN_CHAT_ID}

\* the xp_log rows of the main group created in [start, end + 1 day)
window_rows(log, start_date_kst, end_date_kst) ==
    {i \in main_rows(log) :
        in_window(log[i].created_at, kst_midnight_utc(start_date_kst),
                  kst_midnight_utc(end_date_kst + 1))}

\* LIMIT 10
TopLimit == 10

\* ORDER BY total_xp DESC: equal totals fall as the database returns them
RECURSIVE by_total_desc(_)
by_total_desc(groups) ==
    IF groups = {} THEN <<>>
    ELSE LET g == CHOOSE x \in groups : \A h \in groups : x.total_xp >= h.total_xp
         IN <<g>> \o by_total_desc(groups \ {g})

\* variant of top_rows without the LIMIT
top_rows_unlimited(groups) == by_total_desc(groups)

\* ORDER BY total_xp DESC LIMIT 10
top_rows(groups) ==
    LET sorted == by_total_desc(groups)
    IN SubSeq(sorted, 1, min2(Len(sorted), TopLimit))

NoSummary ==
    [ok |-> FALSE, msg_count |-> 0, user_count |-> 0, new_users |-> 0,
     rows |-> <<>>]

_build_range_summary(log, start_date_kst, end_date_kst) ==
    IF MAIN_CHAT_ID = 0 THEN NoSummary
    ELSE LET rows == window_rows(log, start_date_kst, end_date_kst)
             of_user(u) == {i \in rows : log[i].user_id = u}
             users == {log[i].user_id : i \in rows}
             first_rows ==
                 {i \in main_rows(log) :
                     \A j \in main_rows(log) :
                         log[j].user_id = log[i].user_id
                         => ~iso_less(log[j].created_at, log[i].created_at)}
         IN [ok |-> TRUE,
             msg_count |-> Cardinality(rows),
             user_count |-> Cardinality(users),
             new_users |-> Cardinality({log[i].user_id : i \in first_rows \cap rows}),
             rows |-> top_rows({[user_id |-> u,
                                 total_xp |-> sum_xp(log, of_user(u)),
                                 msg_cnt |-> Cardinality(of_user(u))] : u \in users})]

\* cmd_today, cmd_week, cmd_range after their arguments are parsed
summary_command(op, user, chat, start_date, end_date) ==
    /\ CanDispatch
    /\ chat \in AllChats
    /\ IF ~is_admin(user) \/ ~is_private_chat(chat) \/ end_date < start_date
       THEN reply' = Rejected(op)
       ELSE LET s == _build_range_summary(xp_log, start_date, end_date)
            IN reply' = [Answer(op, chat, user, s.ok) EXCEPT
                            !.start_date = start_date, !.end_date = end_date,
                            !.summary = s]
    /\ UNCHANGED <<MAIN_CHAT_ID, concurrent_updates, ADMIN_USER_IDS,
                   user_stats, invite_links, invited_users, xp_keywords,
                   xp_log, bot_settings, now, links_minted, backup_made,
                   pending, msg_hist, join_count>>

cmd_today(user, chat) ==
    summary_command("today", user, chat, kst_date(now), kst_date(now))

cmd_week(user, chat) ==
    summary_command("week", user, chat, kst_date(now) - 6, kst_date(now))

cmd_range(user, chat, start_date, end_date) ==
    summary_command("range", user, chat, start_date, end_date)

\* the KST dates around StartTime
RangeDays == {kst_date(StartTime), kst_date(StartTime) + 1}

NextSummary ==
    \/ \E u \in Users : handle_message(MainGroup, u, PlainText)
    \/ \E d \in TickSteps : Tick(d)
    \/ \E c \in {MainGroup, PrivateChat(OWNER_ID)} : cmd_today(OWNER_ID, c)
    \/ cmd_week(OWNER_ID, PrivateChat(OWNER_ID))
    \/ \E u \in Users, s \in RangeDays, e \in RangeDays :
           cmd_range(u, PrivateChat(u), s, e)

SpecSummary == Init /\ [][NextSummary]_vars

\* the windowed xp and the row count a summary reports for a member
total_xp_of(summary, u) ==
    IF \E i \in DOMAIN summary.rows : summary.rows[i].user_id = u
    THEN summary.rows[CHOOSE i \in DOMAIN summary.rows :
                          summary.rows[i].user_id = u].total_xp
    ELSE 0

msg_cnt_of(summary, u) ==
    IF \E i \in DOMAIN summary.rows : summary.rows[i].user_id = u
    THEN summary.rows[CHOOSE i \in DOMAIN summary.rows :
                          summary.rows[i].user_id = u].msg_cnt
    ELSE 0

\* the sums of the one-day summaries of the days d..e
RECURSIVE days_xp(_, _, _, _)
days_xp(log, u, d, e) ==
    IF d > e THEN 0
    ELSE total_xp_of(_build_range_summary(log, d, d), u) + days_xp(log, u, d + 1, e)

RECURSIVE days_cnt(_, _, _, _)
days_cnt(log, u, d, e) ==
    IF d > e THEN 0
    ELSE msg_cnt_of(_build_range_summary(log, d, d), u) + days_cnt(log, u, d + 1, e)

-----------------------------------------------------------------------------
(* The reset among rows of two groups *)

\* user 2 writes in both groups, claims and invites user 1; the owner resets
NextReset ==
    \/ \E c \in GroupChats : handle_message(c, 2, PlainText)
    \/ cmd_daily(MainGroup, 2)
    \/ cmd_mylink(MainGroup, 2)
    \/ \E i \in DOMAIN pending : create_chat_invite_link(i, TRUE)
    \/ handle_chat_member(MainGroup, 1, "left", "member", 1)
    \/ \E i \in DOMAIN pending : get_chat_member(i, TRUE)
    \/ \E args \in ResetWords : cmd_resetxp(OWNER_ID, args, TRUE)
    \/ Tick(DefaultCooldown)

SpecReset == Init /\ [][NextReset]_vars

\* C18: no step deletes a user_stats row, and the executed reset leaves every
\* row of the main group with xp 0, level 1, messages_count 0, no last_daily,
\* invites_count 0, no last_xp_at, daily_xp 0 and no daily_xp_date, keeps the
\* set of rows, and leaves the rows of other groups as they were.
C18_ResetZeroesMainRows ==
    [][/\ DOMAIN user_stats \subseteq DOMAIN user_stats'
       /\ \A args \in ResetWords :
             (/\ reply'.op = "resetxp"
              /\ reply'.ok
              /\ cmd_resetxp(OWNER_ID, args, TRUE))
             => /\ DOMAIN user_stats' = DOMAIN user_stats
                /\ \A k \in DOMAIN user_stats :
                      IF k[1] = MAIN_CHAT_ID
                      THEN /\ user_stats'[k].xp = 0
                           /\ user_stats'[k].level = 1
                           /\ user_stats'[k].messages_count = 0
                           /\ user_stats'[k].last_daily = NULL
                           /\ user_stats'[k].invites_count = 0
                           /\ user_stats'[k].last_xp_at = NoIso
                           /\ user_stats'[k].daily_xp = 0
                           /\ user_stats'[k].daily_xp_date = NULL
                      ELSE user_stats'[k] = user_stats[k]]_vars

\* the reset has zeroed the row of an inviter whose link had been used,
\* next to a row of the other group that still has its xp
C18_Witness ==
    /\ reply.op = "resetxp"
    /\ reply.ok
    /\ \E t \in DOMAIN invite_links :
          /\ invite_links[t].joined_count > 0
          /\ <<MAIN_CHAT_ID, invite_links[t].inviter_id>> \in DOMAIN user_stats
          /\ user_stats[<<MAIN_CHAT_ID, invite_links[t].inviter_id>>].invites_count = 0
    /\ <<OtherGroup, 2>> \in DOMAIN user_stats
    /\ user_stats[<<OtherGroup, 2>>].xp > 0


-----------------------------------------------------------------------------
(* Credits that bypass the message filter *)

\* a cooldown, and a daily cap that one message uses up
CreditSettings == [DefaultSettings EXCEPT !.cooldown_seconds = 3, !.daily_xp_cap = 3]

InitCredit == InitDb(CreditSettings) /\ concurrent_updates = FALSE

CreditAmounts == {0, 99}

\* user 2 writes and invites user 1; the owner credits user 2 by hand
NextCredit ==
    \/ handle_message(MainGroup, 2, PlainText)
    \/ \E d \in CreditAmounts : cmd_add_xp(OWNER_ID, PrivateChat(OWNER_ID), 2, d)
    \/ cmd_mylink(MainGroup, 2)
    \/ \E i \in DOMAIN pending : create_chat_invite_link(i, TRUE)
    \/ handle_chat_member(MainGroup, 1, "left", "member", 1)
    \/ \E i \in DOMAIN pending, found \in BOOLEAN : get_chat_member(i, found)
    \/ \E d \in TickSteps : Tick(d)

SpecCredit == InitCredit /\ [][NextCredit]_vars

\* the row of key k, or the columns a freshly inserted row has
row_or_new(stats, k) ==
    IF k \in DOMAIN stats THEN stats[k] ELSE StatsRow(0, 1, 0, NULL, 0)

\* the step has added exactly `amount` to the xp of k and has left the
\* cooldown stamp and the day's total of k as they were
credited_exactly(k, amount) ==
    /\ amount > 0
    /\ k \in DOMAIN user_stats'
    /\ user_stats'[k].xp = row_or_new(user_stats, k).xp + amount
    /\ user_stats'[k].last_xp_at = row_or_new(user_stats, k).last_xp_at
    /\ user_stats'[k].daily_xp = row_or_new(user_stats, k).daily_xp
    /\ user_stats'[k].daily_xp_date = row_or_new(user_stats, k).daily_xp_date

\* C19: an accepted /add_xp and an invite credit add exactly the given
\* positive amount to the target's xp, whatever the cooldown and the daily cap
\* would admit, and leave last_xp_at, daily_xp and daily_xp_date as they were.
C19_CreditBypassesFilter ==
    [][/\ \A d \in CreditAmounts :
             (/\ reply'.op = "add_xp"
              /\ reply'.ok
              /\ cmd_add_xp(OWNER_ID, PrivateChat(OWNER_ID), 2, d))
             => credited_exactly(<<main_or(PrivateChat(OWNER_ID)), 2>>, d)
       /\ \A i \in DOMAIN pending :
             (/\ reply'.op = "join_credit"
              /\ reply'.ok
              /\ get_chat_member(i, TRUE))
             => credited_exactly(<<pending[i].chat, pending[i].user>>,
                                 pending[i].invite_xp)]_vars

\* an invite credit has reached a member who had written at this very
\* instant and had used up the day's cap
C19_Witness ==
    /\ reply.op = "join_credit"
    /\ reply.ok
    /\ LET row == user_stats[<<reply.chat, reply.user>>]
       IN /\ row.last_xp_at = isoformat(now)
          /\ row.daily_xp >= bot_settings.daily_xp_cap
          /\ row.daily_xp_date = kst_date(now)
          /\ row.xp = reply.old_xp + bot_settings.invite_xp
          /\ row.xp > bot_settings.daily_xp_cap


-----------------------------------------------------------------------------
(* Links and joins in two groups *)

\* the database of an earlier run without MAIN_CHAT_ID, in which the owner
\* had taken a link in the other group
InitGroups ==
    /\ MAIN_CHAT_ID \in {0, MainGroup}
    /\ concurrent_updates = FALSE
    /\ ADMIN_USER_IDS = {}
    /\ user_stats = <<>>
    /\ invite_links = Put(<<>>, 1, [chat_id |-> OtherGroup, inviter_id |-> OWNER_ID,
                                    joined_count |-> 0])
    /\ links_minted = 1
    /\ invited_users = <<>>
    /\ xp_keywords = [w \in DefaultKeywords |-> keyword_row("block", 0)]
    /\ xp_log = <<>>
    /\ bot_settings = DefaultSettings
    /\ now = StartTime
    /\ backup_made = FALSE
    /\ pending = <<>>
    /\ reply = NoReply
    /\ msg_hist = [k \in GroupKeys |-> NoHist]
    /\ join_count = [k \in GroupKeys |-> 0]

\* the stored links of a chat: the links a join in that chat can carry
links_in(chat) == {t \in DOMAIN invite_links : invite_links[t].chat_id = chat}

NextGroups ==
    \/ \E c \in GroupChats, u \in Users : cmd_mylink(c, u)
    \/ \E i \in DOMAIN pending, minted \in BOOLEAN : create_chat_invite_link(i, minted)
    \/ \E c \in GroupChats :
          \E t \in links_in(c) : handle_chat_member(c, 2, "left", "member", t)
    \/ \E i \in DOMAIN pending, found \in BOOLEAN : get_chat_member(i, found)

SpecGroups == InitGroups /\ [][NextGroups]_vars

\* C20: with MAIN_CHAT_ID set, a /mylink and a join in another group leave
\* invite_links, user_stats and xp_log as they were and end at once: nothing
\* of another group is ever left suspended to write later.
C20_OtherGroupIgnored ==
    [][MAIN_CHAT_ID # 0
       => /\ \A c \in GroupChats \ {MAIN_CHAT_ID} :
                /\ \A u \in Users :
                      (/\ reply'.op \in {"mylink", "mylink_await"}
                       /\ cmd_mylink(c, u))
                      => UNCHANGED <<invite_links, user_stats, xp_log, pending>>
                /\ \A t \in links_in(c) :
                      (/\ reply'.op \in {"join", "join_await"}
                       /\ handle_chat_member(c, 2, "left", "member", t))
                      => UNCHANGED <<invite_links, user_stats, xp_log, pending>>
          /\ \A i \in DOMAIN pending' : pending'[i].chat = MAIN_CHAT_ID]_vars

\* a join through the stored link of the other group has been turned away
\* after a join in the main group had been counted
C20_Witness ==
    /\ MAIN_CHAT_ID # 0
    /\ reply = Rejected("join")
    /\ \E t \in links_in(OtherGroup) : invite_links[t].joined_count = 0
    /\ \E t \in links_in(MAIN_CHAT_ID) : invite_links[t].joined_count > 0


-----------------------------------------------------------------------------
(* Length XP with the message filter switched off *)

\* /setcooldown 0 and /setdailycap 0
OpenSettings == [DefaultSettings EXCEPT !.cooldown_seconds = 0, !.daily_xp_cap = 0]

InitLength == InitDb(OpenSettings) /\ concurrent_updates = FALSE

\* texts of 4, 20 and 39 non-space characters, the last two with spaces
FourText == <<"a", " ", "s", "s", "7">>
TwentyText == <<" ">> \o Rep("a", 20)
ThirtyNineText == Rep("s", 20) \o <<" ">> \o Rep("a", 19)

LengthTexts == {ShortText, FourText, PlainText, TwentyText, ThirtyNineText, LongText}

NextLength ==
    \/ \E u \in Users, text \in LengthTexts : handle_message(MainGroup, u, text)
    \/ cmd_addxpbonus(OWNER_ID, PrivateChat(OWNER_ID), <<"b">>, 2)

SpecLength == InitLength /\ [][NextLength]_vars

\* no rule of the table is met by the text, in the code's sense or in the
\* plain sense of containing a rule's word
no_keyword_match(keywords, text) ==
    /\ block_rules_in(keywords, text) = {}
    /\ bonus_rules_in(keywords, text) = {}

\* C21: with cooldown and daily cap off, a message that meets no keyword
\* and is neither symbols only nor filler only is admitted 3 + n \div 20 XP
\* when its length without whitespace n is at least 5 and nothing when n < 5;
\* a first message of 47 characters leaves xp 5, level 1 and no level-up.
C21_LengthXp ==
    (/\ reply.op = "message"
     /\ bot_settings.cooldown_seconds = 0
     /\ bot_settings.daily_xp_cap = 0
     /\ no_keyword_match(xp_keywords, reply.text)
     /\ ~_is_emoji_only(reply.text)
     /\ ~only_kek_or_gg(reply.text))
    => LET n == Len(strip_spaces(reply.text))
           row == user_stats[<<reply.chat, reply.user>>]
       IN /\ reply.xp_delta = IF n >= 5 THEN 3 + n \div 20 ELSE 0
          /\ row.xp = reply.old_xp + reply.xp_delta
          /\ (n = 47 /\ reply.old_xp = 0)
             => (row.xp = 5 /\ row.level = 1 /\ ~reply.level_up)

\* a first message of 47 characters while a bonus rule it does not meet is
\* in the table
C21_Witness ==
    /\ reply.op = "message"
    /\ reply.text = LongText
    /\ reply.old_count = 0
    /\ user_stats[<<reply.chat, reply.user>>].xp = 5
    /\ \E w \in DOMAIN xp_keywords : xp_keywords[w].mode = "bonus"
    /\ no_keyword_match(xp_keywords, reply.text)


-----------------------------------------------------------------------------
(* Joins that carry no link or a link the chat does not have *)

\* what a chat_member update can carry: no link, or any link of the platform
JoinTokens == {NULL} \cup (1..MaxLinks)

NextJoins ==
    \/ cmd_mylink(MainGroup, OWNER_ID)
    \/ \E i \in DOMAIN pending, minted \in BOOLEAN : create_chat_invite_link(i, minted)
    \/ \E c \in GroupChats, t \in JoinTokens :
          handle_chat_member(c, 2, "left", "member", t)
    \/ \E i \in DOMAIN pending, found \in BOOLEAN : get_chat_member(i, found)

SpecJoins == InitGroups /\ [][NextJoins]_vars

\* C26: a join that carries no invite link, or one that is not a stored
\* link of the chat it happens in, leaves invite_links, user_stats and xp_log
\* as they were and ends at once.
C26_ForeignJoinNoOp ==
    [][\A c \in GroupChats, t \in JoinTokens :
          (/\ reply'.op \in {"join", "join_await"}
           /\ t \notin links_in(c)
           /\ handle_chat_member(c, 2, "left", "member", t))
          => UNCHANGED <<invite_links, user_stats, xp_log, pending>>]_vars

\* without MAIN_CHAT_ID, where every chat is served, a join has been turned
\* away although one link has been used and another has not
C26_Witness ==
    /\ MAIN_CHAT_ID = 0
    /\ reply = Rejected("join")
    /\ \E t \in DOMAIN invite_links : invite_links[t].joined_count > 0
    /\ \E t \in DOMAIN invite_links : invite_links[t].joined_count = 0


-----------------------------------------------------------------------------
(* Filler messages among bonus rules *)

\* filler of 25 characters, filler with whitespace inside, and the other
\* filler character
LongFillerText == Rep(KH, 25)
SpacedFillerText == <<" ", KH, KH, " ", KH, KH, KH, KH>>
GgText == Rep(KI, 6)

FillerTexts == {FillerText, LongFillerText, SpacedFillerText, GgText, KekText}

\* words of bonus rules that filler contains
FillerWords == {<<KH>>, <<KI, KI, KI>>, <<KH, KH>>}

NextFiller ==
    \/ \E u \in Users, text \in FillerTexts : handle_message(MainGroup, u, text)
    \/ \E w \in FillerWords : cmd_addxpbonus(OWNER_ID, PrivateChat(OWNER_ID), w, 2)
    \/ \E w \in FillerWords : cmd_delxpword(OWNER_ID, PrivateChat(OWNER_ID), w)

SpecFiller == InitLength /\ [][NextFiller]_vars

\* the text without whitespace is one filler character repeated
filler_only(text) ==
    LET s == strip_spaces(text)
    IN /\ s # <<>>
       /\ \E ch \in {KH, KI} : \A i \in 1..Len(s) : s[i] = ch

\* C27: a message that without whitespace is one filler character repeated
\* earns no XP, whatever its length and whatever bonus rules are in the
\* table.
C27_FillerEarnsNothing ==
    (reply.op = "message" /\ filler_only(reply.text))
    => (/\ reply.xp_delta = 0
        /\ user_stats[<<reply.chat, reply.user>>].xp = reply.old_xp)

\* filler of 25 characters has earned nothing although a bonus rule whose
\* word it contains, other than the two built-in words, is in the table and
\* neither cooldown nor cap is on
C27_Witness ==
    /\ reply.op = "message"
    /\ reply.text = LongFillerText
    /\ reply.xp_delta = 0
    /\ bot_settings.cooldown_seconds = 0
    /\ bot_settings.daily_xp_cap = 0
    /\ \E w \in bonus_rules_in(xp_keywords, reply.text) \ DefaultKeywords :
          xp_keywords[w].delta > 0


-----------------------------------------------------------------------------
(* Bonus rules with negative deltas *)

PenaltyWords == {<<"b">>, <<"S", "A">>}

\* /addxpbonus takes any integer
PenaltyDeltas == {-4, 2}

NextPenalty ==
    \/ \E u \in Users, text \in {ShortText, PlainText, LongText} :
          handle_message(MainGroup, u, text)
    \/ \E w \in PenaltyWords, d \in PenaltyDeltas :
          cmd_addxpbonus(OWNER_ID, PrivateChat(OWNER_ID), w, d)

SpecPenalty == InitLength /\ [][NextPenalty]_vars

\* C28: the XP a message is admitted is never negative, also when the bonus
\* rules it meets sum to less than minus its length XP: the xp of the sender
\* after the message is the xp before plus a delta of at least 0, and that
\* delta is what the log records.
C28_DeltaNeverNegative ==
    /\ \A i \in DOMAIN xp_log : xp_log[i].xp_delta >= 0
    /\ reply.op = "message"
       => (/\ reply.xp_delta >= 0
           /\ reply.old_xp >= 0
           /\ user_stats[<<reply.chat, reply.user>>].xp
                 = reply.old_xp + reply.xp_delta)

\* a member who had XP wrote a text whose bonus rules take more than its
\* length is worth, and kept the XP
C28_Witness ==
    /\ reply.op = "message"
    /\ reply.old_xp > 0
    /\ base_xp_of(reply.text) > 0
    /\ base_xp_of(reply.text)
         + sum_delta(xp_keywords, bonus_rules_in(xp_keywords, reply.text)) < 0
    /\ reply.xp_delta = 0
    /\ user_stats[<<reply.chat, reply.user>>].xp = reply.old_xp


-----------------------------------------------------------------------------
(* The anti-spam columns of a message's sender *)

\* C29: a message writes last_xp_at, daily_xp and daily_xp_date of its
\* sender only when it is admitted XP; a message admitted nothing leaves the
\* three columns as they were, so it does not restart the cooldown.
C29_ZeroKeepsStamps ==
    [][(/\ reply'.op = "message"
        /\ handle_message(reply'.chat, reply'.user, reply'.text))
       => LET k == <<reply'.chat, reply'.user>>
              before == row_or_new(user_stats, k)
              after == user_stats'[k]
          IN IF reply'.xp_delta > 0
             THEN /\ after.last_xp_at = isoformat(now)
                  /\ after.daily_xp_date = kst_date(now)
                  /\ after.daily_xp >= reply'.xp_delta
             ELSE /\ after.last_xp_at = before.last_xp_at
                  /\ after.daily_xp = before.daily_xp
                  /\ after.daily_xp_date = before.daily_xp_date]_vars

\* a message inside the cooldown has earned nothing and the stamp of the
\* sender is still the instant of the message before
C29_Witness ==
    /\ reply.op = "message"
    /\ reply.xp_delta = 0
    /\ text_xp(xp_keywords, reply.text) > 0
    /\ user_stats[Sender].last_xp_at # NoIso
    /\ fromisoformat(user_stats[Sender].last_xp_at) < now
    /\ now - fromisoformat(user_stats[Sender].last_xp_at) < bot_settings.cooldown_seconds
    /\ user_stats[Sender].daily_xp < bot_settings.daily_xp_cap


-----------------------------------------------------------------------------
\* The top list of a summary: a main group whose log already holds one
\* message of each of eleven members on the current KST day, and the daily
\* claim of the last of them on the day before.

TopCount == 11

TopUsers == 1..TopCount

Claimant == TopCount

TopPatterns == 1..3

\* the XP the message of a member earned
top_delta(u, p) == (u * p) % 7

top_at(u) == StartTime - 20 + u

top_log(p) ==
    <<LogRow(MainGroup, Claimant, DailyBonus, 0, StartTime - DaySeconds)>>
    \o [u \in TopUsers |-> LogRow(MainGroup, u, top_delta(u, p), 20, top_at(u))]

\* the ledger row the logged events of a member left behind
top_row(u, p) ==
    LET k == <<MainGroup, u>>
        claimed == IF u = Claimant
                   THEN Put(<<>>, k, daily_row(<<>>, k, kst_date(StartTime - DaySeconds)))
                   ELSE <<>>
        written == add_xp(claimed, MainGroup, u, top_delta(u, p))
    IN mark_admitted(written[<<MainGroup, u>>], top_delta(u, p), 0, top_at(u))

InitTop ==
    /\ MAIN_CHAT_ID = MainGroup
    /\ concurrent_updates = FALSE
    /\ ADMIN_USER_IDS = {}
    /\ \E p \in TopPatterns :
         /\ xp_log = top_log(p)
         /\ user_stats = [k \in {MainGroup} \X TopUsers |-> top_row(k[2], p)]
    /\ invite_links = <<>>
    /\ links_minted = 0
    /\ invited_users = <<>>
    /\ xp_keywords = [w \in DefaultKeywords |-> keyword_row("block", 0)]
    /\ bot_settings = DefaultSettings
    /\ now = StartTime
    /\ backup_made = FALSE
    /\ pending = <<>>
    /\ reply = NoReply
    /\ msg_hist = [k \in GroupKeys |-> NoHist]
    /\ join_count = [k \in GroupKeys |-> 0]

TopDays == {kst_date(StartTime) - 1, kst_date(StartTime)}

NextTop ==
    \/ cmd_today(OWNER_ID, PrivateChat(OWNER_ID))
    \/ cmd_week(OWNER_ID, PrivateChat(OWNER_ID))
    \/ \E s \in TopDays, e \in TopDays :
           cmd_range(OWNER_ID, PrivateChat(OWNER_ID), s, e)
    \/ \E args \in ResetWords, zipped \in BOOLEAN : cmd_resetxp(OWNER_ID, args, zipped)
    \/ \E d \in TickSteps : Tick(d)

SpecTop == InitTop /\ [][NextTop]_vars

SummaryOps == {"today", "week", "range"}

\* the logged events of a member in the main group on the KST days of a range
ranged_rows(u, start_date, end_date) ==
    {i \in DOMAIN xp_log :
        /\ xp_log[i].chat_id = MAIN_CHAT_ID
        /\ xp_log[i].user_id = u
        /\ kst_date(fromisoformat(xp_log[i].created_at)) \in start_date..end_date}

ranged_sum(u, start_date, end_date) ==
    sum_xp(xp_log, ranged_rows(u, start_date, end_date))

\* C31: the top list of a summary holds at most ten members, no member
\* twice, in order of non-increasing total; each listed total is the sum of
\* the logged deltas of that member in the range, whatever the ledger holds,
\* and no member left out of the list has a larger sum than a listed one.
C31_TopTenByWindowedSum ==
    (reply.op \in SummaryOps /\ reply.summary.ok) =>
        LET rows == reply.summary.rows
            total(u) == ranged_sum(u, reply.start_date, reply.end_date)
            listed == {rows[i].user_id : i \in DOMAIN rows}
        IN /\ Len(rows) <= 10
           /\ \A i, j \in DOMAIN rows :
                /\ i < j => rows[i].total_xp >= rows[j].total_xp
                /\ i # j => rows[i].user_id # rows[j].user_id
           /\ \A i \in DOMAIN rows :
                /\ ranged_rows(rows[i].user_id, reply.start_date, reply.end_date) # {}
                /\ rows[i].total_xp = total(rows[i].user_id)
           /\ \A u \in TopUsers \ listed :
                \/ ranged_rows(u, reply.start_date, reply.end_date) = {}
                \/ /\ Len(rows) = 10
                   /\ \A i \in DOMAIN rows : rows[i].total_xp >= total(u)

\* a summary asked after an executed reset: eleven members were active in
\* the range, ten are listed, with their logged totals although every
\* ledger row holds 0 XP
C31_Witness ==
    /\ reply.op \in SummaryOps
    /\ reply.summary.ok
    /\ reply.summary.user_count = 11
    /\ Len(reply.summary.rows) = 10
    /\ reply.summary.rows[1].total_xp > 0
    /\ reply.summary.rows[1].total_xp > reply.summary.rows[10].total_xp
    /\ \A k \in DOMAIN user_stats : user_stats[k].xp = 0


-----------------------------------------------------------------------------
\* The message count of a summary: a member writes and claims the daily
\* bonus in the main group, the owner asks for summaries.

NextCount ==
    \/ handle_message(MainGroup, 2, PlainText)
    \/ cmd_daily(MainGroup, 2)
    \/ \E d \in TickSteps : Tick(d)
    \/ cmd_today(OWNER_ID, PrivateChat(OWNER_ID))
    \/ \E s \in RangeDays, e \in RangeDays :
           cmd_range(OWNER_ID, PrivateChat(OWNER_ID), s, e)

SpecCount == Init /\ [][NextCount]_vars

\* the rows handle_message wrote for the main group on the KST days of a
\* range: only a message has a length
message_rows(start_date, end_date) ==
    {i \in DOMAIN xp_log :
        /\ xp_log[i].chat_id = MAIN_CHAT_ID
        /\ xp_log[i].msg_len > 0
        /\ kst_date(fromisoformat(xp_log[i].created_at)) \in start_date..end_date}

\* C32: the message count of a summary is the number of messages
\* handle_message processed for the main group inside the range.
C32_CountsMessagesOnly ==
    (reply.op \in SummaryOps /\ reply.summary.ok) =>
        reply.summary.msg_count
            = Cardinality(message_rows(reply.start_date, reply.end_date))


-----------------------------------------------------------------------------
\* Minting invite links: both members ask for their link in either group,
\* the platform answers or refuses each minting call.

NextMint ==
    \/ \E c \in GroupChats, u \in Users : cmd_mylink(c, u)
    \/ \E i \in DOMAIN pending, minted \in BOOLEAN : create_chat_invite_link(i, minted)
    \/ \E d \in TickSteps : Tick(d)

SpecMint == Init /\ [][NextMint]_vars

\* the /mylink requests of an inviter suspended at the minting call
minting(chat, user) ==
    {i \in PendingLinks : pending[i].chat = chat /\ pending[i].user = user}

-----------------------------------------------------------------------------
\* The four sources of XP without a reset: member 2 writes, claims the daily
\* bonus and is credited by the owner, member 1 is credited for the join of
\* member 2 through its link.

NextSources ==
    \/ \E c \in GroupChats : handle_message(c, 2, LongText)
    \/ cmd_daily(MainGroup, 2)
    \/ cmd_add_xp(OWNER_ID, PrivateChat(OWNER_ID), 2, 99)
    \/ cmd_mylink(MainGroup, 1)
    \/ \E i \in DOMAIN pending : create_chat_invite_link(i, TRUE)
    \/ handle_chat_member(MainGroup, 2, "left", "member", 1)
    \/ \E i \in DOMAIN pending, found \in BOOLEAN : get_chat_member(i, found)
    \/ \E d \in TickSteps : Tick(d)

SpecSources == Init /\ [][NextSources]_vars

\* C34: while no reset has run, the xp of every member is the sum of the
\* xp_delta of its xp_log rows: each source of XP logs what it credits.
C34_XpIsLoggedSum ==
    \A k \in GroupKeys : xp_of(user_stats, k) = sum_xp(xp_log, rows_of(xp_log, k))

\* two rows without a message length are logged, the invite credit of
\* member 1 among them, and a ledger row holds the logged amount
C34_Witness ==
    /\ Len(xp_log) = 2
    /\ \A i \in DOMAIN xp_log : xp_log[i].msg_len = 0 /\ xp_log[i].xp_delta > 0
    /\ xp_of(user_stats, <<MainGroup, 1>>) = bot_settings.invite_xp
    /\ xp_of(user_stats, <<MainGroup, 2>>) > 0


-----------------------------------------------------------------------------
\* The two counters of a join, under SpecSources

\* SUM(joined_count) over the invite_links rows of an inviter in a chat
RECURSIVE joined_sum(_, _)
joined_sum(links, tokens) ==
    IF tokens = {} THEN 0
    ELSE LET t == CHOOSE x \in tokens : TRUE
         IN links[t].joined_count + joined_sum(links, tokens \ {t})

\* C35: while no reset has run, the invites_count of every member is the sum
\* of joined_count over its invite_links rows of that chat, and an inviter
\* without a user_stats row has no counted join.
C35_InvitesCountIsJoinedSum ==
    \A k \in GroupKeys :
        LET joined == joined_sum(invite_links, links_of(invite_links, k[1], k[2]))
        IN IF k \in DOMAIN user_stats
           THEN user_stats[k].invites_count = joined
           ELSE joined = 0

\* two joins came through the link of member 1, whose row was credited the
\* invite XP in between
C35_Witness ==
    /\ <<MainGroup, 1>> \in DOMAIN user_stats
    /\ user_stats[<<MainGroup, 1>>].invites_count = 2
    /\ user_stats[<<MainGroup, 1>>].xp > 0
    /\ \E t \in DOMAIN invite_links : invite_links[t].joined_count = 2


-----------------------------------------------------------------------------
\* The day's accrual: member 1 writes under a cooldown of 3 s and a cap of
\* 4 XP, claims the daily bonus, is credited by the owner and for the join of
\* member 2; the owner resets.

InitDay == InitDb(TightSettings) /\ concurrent_updates = FALSE

NextDay ==
    \/ handle_message(MainGroup, 1, PlainText)
    \/ cmd_daily(MainGroup, 1)
    \/ cmd_add_xp(OWNER_ID, PrivateChat(OWNER_ID), 1, 99)
    \/ cmd_mylink(MainGroup, 1)
    \/ \E i \in DOMAIN pending : create_chat_invite_link(i, TRUE)
    \/ handle_chat_member(MainGroup, 2, "left", "member", 1)
    \/ \E i \in DOMAIN pending : get_chat_member(i, TRUE)
    \/ \E args \in ResetWords : cmd_resetxp(OWNER_ID, args, TRUE)
    \/ \E d \in TickSteps : Tick(d)

SpecDay == InitDay /\ [][NextDay]_vars

\* C36: a row dated day d in daily_xp_date holds in daily_xp the sum of the
\* XP its member's messages were admitted on KST day d since the last reset;
\* a row without a date belongs to a member no message of which was admitted
\* since then. Daily claims, admin credits and invite credits, which are no
\* part of that sum, leave both columns alone.
C36_DailyXpIsDaysMessageSum ==
    \A k \in GroupKeys :
        IF k \in DOMAIN user_stats /\ user_stats[k].daily_xp_date # NULL
        THEN /\ user_stats[k].daily_xp_date = msg_hist[k].run.day
             /\ user_stats[k].daily_xp = msg_hist[k].run.day_sum
        ELSE msg_hist[k].run.day = NULL

\* member 1 was admitted the XP of one message and credited for a join (or
\* by the owner) on the same day: daily_xp holds the message's XP only
C36_Witness ==
    LET k == <<MainGroup, 1>>
    IN /\ k \in DOMAIN user_stats
       /\ user_stats[k].daily_xp_date = kst_date(now)
       /\ user_stats[k].daily_xp = text_xp(xp_keywords, PlainText)
       /\ user_stats[k].xp > DailyBonus + user_stats[k].daily_xp


\* a step of /resetxp that ran the UPDATE
reset_step == reply'.op = "resetxp" /\ reply'.ok /\ now' = now

\* C37: the xp of a member is never negative and its level never below 1;
\* a step other than an executed reset removes no row and lowers neither
\* the xp nor the level of a member.
C37_XpAndLevelNeverDrop ==
    [][/\ \A k \in DOMAIN user_stats' :
            user_stats'[k].xp >= 0 /\ user_stats'[k].level >= 1
       /\ ~reset_step
          => \A k \in DOMAIN user_stats :
                /\ k \in DOMAIN user_stats'
                /\ user_stats'[k].xp >= user_stats[k].xp
                /\ user_stats'[k].level >= user_stats[k].level]_vars

\* member 1 was credited by the owner and then claimed the daily bonus: its
\* xp is the sum of both and its level the level of that sum
C37_Witness ==
    LET k == <<MainGroup, 1>>
    IN /\ reply.op = "daily"
       /\ reply.ok
       /\ reply.old_xp = 99
       /\ user_stats[k].xp = 99 + DailyBonus
       /\ user_stats[k].level > calc_level(99)


-----------------------------------------------------------------------------
\* Rights: the owner and member 2 send every command that changes the
\* settings, the keyword rules, the administrators or, by a credit or a
\* reset, the ledger; the owner adds and removes administrators.

BonusWord == <<"b">>

\* the commands of one sender
CommandOf(u) ==
    \/ \E t \in Users : cmd_addadmin(u, PrivateChat(u), t)
    \/ \E t \in Users : cmd_deladmin(u, PrivateChat(u), t)
    \/ cmd_setcooldown(u, DefaultCooldown - u)
    \/ cmd_addxpbonus(u, PrivateChat(u), BonusWord, u)
    \/ cmd_delxpword(u, PrivateChat(u), BonusWord)
    \/ cmd_add_xp(u, PrivateChat(u), 2, 99)
    \/ \E args \in ResetWords : cmd_resetxp(u, args, TRUE)

NextAdmins == \E u \in Users : CommandOf(u)

SpecAdmins == Init /\ [][NextAdmins]_vars

\* C38: a command of a sender who is neither the owner nor in the
\* administrator list when the command arrives changes no setting, keyword
\* rule, administrator or ledger row and logs no credit; a command of a
\* sender other than the owner changes neither the administrator list nor,
\* by a reset, the ledger. A removed administrator is such a sender from the
\* command after the removal on.
C38_OnlyAuthorizedChange ==
    [][\A u \in Users :
          /\ (/\ u # OWNER_ID
              /\ u \notin ADMIN_USER_IDS
              /\ CommandOf(u))
             => UNCHANGED <<bot_settings, xp_keywords, ADMIN_USER_IDS,
                            user_stats, xp_log, backup_made>>
          /\ (/\ u # OWNER_ID
              /\ \/ ADMIN_USER_IDS' # ADMIN_USER_IDS
                 \/ reply'.op \in {"resetxp", "resetxp_backup"}
              /\ CommandOf(u))
             => UNCHANGED <<ADMIN_USER_IDS, user_stats, backup_made>>]_vars

\* member 2 set the cooldown while it was an administrator, the owner
\* removed it, and its next /setcooldown was refused
C38_Witness ==
    /\ bot_settings.cooldown_seconds = DefaultCooldown - 2
    /\ 2 \notin ADMIN_USER_IDS
    /\ reply = Rejected("setcooldown")

====
